---- MODULE Spec2Model ----
(***************************************************************************)
(* Sparse Game of Life step engine: the CPU reference step of              *)
(* game_logic.h (GameState, GameLogic) and the Metal GPU path of           *)
(* gpu_calculator.h / gpu_calculator.mm / GameOfLife.metal.                *)
(*                                                                         *)
(* A cell is a pair <<x, y>>; a set of cells models an unordered_set.      *)
(***************************************************************************)
EXTENDS Integers, FiniteSets, Sequences, TLC

(***************************************************************************)
(* Bounds of the model.                                                    *)
(***************************************************************************)
\* addCell draws its cell from the seed grid (0..GridW-1) x (0..GridH-1)
GridW == 3
GridH == 2
\* number of addCell calls in one run of the edit/step machine
MaxAdds == 4
\* number of calculateNextGeneration calls in one run of the edit/step machine
MaxSteps == 3
\* number of addCell calls that build a test pattern, and of steps that follow
PatAdds == 6
PatSteps == 4
\* width in bits of the model's uint32_t / int32_t (32 in the source), and of
\* the hash-table cap kMaxTableEntries = 2^TableCapBits (24 in the source);
\* size_t is twice as wide as uint32_t, as on the 64-bit target
UintBits == 10
TableCapBits == 4
\* sets of at most MaxPermLen elements are turned into vectors in every order,
\* larger ones in ascending and in descending order
MaxPermLen == 2
\* number of removeCell and clear calls in one run of the edit/step machine
MaxRemoves == 2
\* calls of the GPU module in one session
MaxCalls == 3
\* calls of one session during which a platform request fails
MaxFaults == 1

Grid == (0 .. GridW - 1) \X (0 .. GridH - 1)

VARIABLES
    active,      \* GameState::active
    potential,   \* GameState::potential
    origin,      \* history: the active set of the pattern as built
    nAdds,       \* history: number of addCell calls so far
    nSteps,      \* history: number of steps so far
    nRemoves,    \* history: number of removeCell and clear calls so far
    lastOp,      \* history: the operation that produced this state
    cpuNext,     \* the GameState `next` filled by the last CPU call on an input pair
    gpuActive,   \* the active set of the run that is stepped on the GPU path
    gpuPotential,\* its potential set
    nextActive,  \* the caller's nextActive set, as the last GPU call left it
    nextPotential, \* the caller's nextPotential set
    retOk,       \* what the last gol::gpu::CalculateNextGeneration returned
    usedGPU,     \* its usedGPU out-parameter
    errorMessage,\* its errorMessage out-parameter
    ctx,         \* MetalContext with gInitFlag, gDeviceAvailable, gInitError
    timing,      \* gTimingStats
    crashed,     \* the process died on a null buffer
    fault,       \* history: the platform request that failed during the last call
    nFaults,     \* history: number of calls during which a platform request failed
    nCalls,      \* history: number of GPU module calls so far
    requested,   \* gRequested
    queryResult, \* what the last IsAvailable / IsEnabled returned
    pairOob,     \* history: what the kernel's out-of-range read yielded in the paired call
    pairNeighborCells, \* history: the neighborCells vector the paired call read back
    kernel,      \* the device side of a dispatch in flight: buffers, counter, lanes
    lastRaw,     \* history: the input and the raw output of the last ComputeCellStates
    app          \* SparseEncodedGOL: its four sets and bSimulationRunning

cpuVars == <<active, potential, origin, nAdds, nSteps, nRemoves>>
gpuVars == <<cpuNext, gpuActive, gpuPotential, nextActive, nextPotential, retOk, usedGPU,
             errorMessage, ctx, timing, crashed, fault, nFaults, nCalls, requested,
             queryResult, pairOob, pairNeighborCells, kernel, lastRaw, app>>
vars == <<cpuVars, lastOp, gpuVars>>

(***************************************************************************)
(* Vec2i and the 3x3 neighbourhood loops                                   *)
(***************************************************************************)
\* Vec2i::operator+
Vec2iAdd(a, b) == <<a[1] + b[1], a[2] + b[2]>>

\* for dy in -1..1, for dx in -1..1: cell + Vec2i(dx, dy)
Square3x3(cell) == { Vec2iAdd(cell, <<dx, dy>>) : dx \in -1 .. 1, dy \in -1 .. 1 }

\* Vec2iHash: int64_t(v.y) << 32 | int64_t(v.x). The sign extension of a
\* negative x sets every high bit, so the y part is lost for x < 0.
Vec2iHash(v) == IF v[1] < 0 THEN v[1] ELSE v[2] * (2 ^ UintBits) + v[1]

\* A plausible slip: two cells are taken for equal when their hashes are.
isAliveByHash(stateActive, cell) == \E a \in stateActive : Vec2iHash(a) = Vec2iHash(cell)

\* GameState::isAlive: unordered_set::find, decided by Vec2i::operator==
isAlive(stateActive, cell) == cell \in stateActive

\* A plausible slip: the centre cell is not skipped.
countLivingNeighborsWithSelf(stateActive, cell) ==
    Cardinality({ n \in Square3x3(cell) : isAlive(stateActive, n) })

\* GameLogic::countLivingNeighbors: the 8 offsets, the cell itself skipped
countLivingNeighbors(stateActive, cell) ==
    Cardinality({ d \in { <<dx, dy>> : dx \in -1 .. 1, dy \in -1 .. 1 } \ { <<0, 0>> } :
                    isAlive(stateActive, Vec2iAdd(cell, d)) })

\* GameLogic::markNeighborsAsPotential: the cells inserted into next.potential
markNeighborsAsPotential(cell) == Square3x3(cell)

\* A plausible slip: births do not mark their neighbourhood.
calculateNextGenerationNoBirthMark(curActive, curPotential) ==
    LET survive == { c \in curPotential :
                        isAlive(curActive, c) /\ countLivingNeighbors(curActive, c) \in {2, 3} }
        die     == { c \in curPotential :
                        isAlive(curActive, c) /\ countLivingNeighbors(curActive, c) \notin {2, 3} }
        born    == { c \in curPotential :
                        ~isAlive(curActive, c) /\ countLivingNeighbors(curActive, c) = 3 }
    IN  [ active    |-> survive \cup born,
          potential |-> curActive \cup UNION { markNeighborsAsPotential(c) : c \in die } ]

\* GameLogic::calculateNextGeneration(current, next): the value of next
calculateNextGeneration(curActive, curPotential) ==
    LET survive == { c \in curPotential :
                        isAlive(curActive, c) /\ countLivingNeighbors(curActive, c) \in {2, 3} }
        die     == { c \in curPotential :
                        isAlive(curActive, c) /\ countLivingNeighbors(curActive, c) \notin {2, 3} }
        born    == { c \in curPotential :
                        ~isAlive(curActive, c) /\ countLivingNeighbors(curActive, c) = 3 }
    IN  [ active    |-> survive \cup born,
          potential |-> curActive
                          \cup UNION { markNeighborsAsPotential(c) : c \in die }
                          \cup UNION { markNeighborsAsPotential(c) : c \in born } ]

\* A plausible slip: next is filled without being cleared first.
calculateNextGenerationNoClear(curActive, curPotential, next) ==
    LET computed == calculateNextGeneration(curActive, curPotential)
    IN  [ active    |-> next.active \cup computed.active,
          potential |-> next.potential \cup computed.potential ]

\* GameLogic::calculateNextGeneration(current, next) on a GameState next that
\* holds the result of an earlier call: next.active.clear() and
\* next.potential.clear() come first
calculateNextGenerationInto(curActive, curPotential, next) ==
    LET emptied  == [ active |-> {}, potential |-> {} ]
        computed == calculateNextGeneration(curActive, curPotential)
    IN  [ active    |-> emptied.active \cup computed.active,
          potential |-> emptied.potential \cup computed.potential ]

(***************************************************************************)
(* Fixed-width integers and bit operations                                 *)
(***************************************************************************)
U32Range == 2 ^ UintBits
Uint32Max == U32Range - 1                     \* numeric_limits<uint32_t>::max()
SizeMax == (U32Range * U32Range) - 1          \* numeric_limits<size_t>::max()

\* static_cast<uint32_t>(v): the bit pattern, no sign extension
ToUint32(v) == v % U32Range

RECURSIVE BitAnd(_, _)
BitAnd(a, b) ==
    IF a = 0 \/ b = 0 THEN 0
    ELSE ((a % 2) * (b % 2)) + 2 * BitAnd(a \div 2, b \div 2)

RECURSIVE BitOr(_, _)
BitOr(a, b) ==
    IF a = 0 THEN b
    ELSE IF b = 0 THEN a
    ELSE (IF a % 2 = 1 \/ b % 2 = 1 THEN 1 ELSE 0) + 2 * BitOr(a \div 2, b \div 2)

\* value >> k, for the values below 2^31 this model works with
ShiftRight(value, k) == IF k >= 31 THEN 0 ELSE value \div (2 ^ k)

\* value |= value >> k
SmearRight(value, k) == BitOr(value, ShiftRight(value, k))

\* A plausible slip: the decrement before the smearing is left out, so an
\* exact power of two is doubled.
NextPowerOfTwoNoDecrement(value) ==
    IF value <= 1 THEN 1
    ELSE IF value > SizeMax \div 2 THEN 0
    ELSE SmearRight(SmearRight(SmearRight(SmearRight(SmearRight(SmearRight(
                value, 1), 2), 4), 8), 16), 32) + 1

\* NextPowerOfTwo (size_t)
NextPowerOfTwo(value) ==
    IF value <= 1 THEN 1
    ELSE IF value > SizeMax \div 2 THEN 0
    ELSE SmearRight(SmearRight(SmearRight(SmearRight(SmearRight(SmearRight(
                value - 1, 1), 2), 4), 8), 16), 32) + 1

Max(a, b) == IF a >= b THEN a ELSE b
Min(a, b) == IF a <= b THEN a ELSE b

(***************************************************************************)
(* The hash table: host-side encoder and device-side probe                 *)
(***************************************************************************)
kMaxTableEntries == 2 ^ TableCapBits

EmptyEntry == [ x |-> 0, y |-> 0, occupied |-> 0 ]

\* std::vector<HashEntry> table(n): value-initialised, indexed from 0
NewTable(n) == [ i \in 0 .. n - 1 |-> EmptyEntry ]

\* (uy << 32) | ux with ux, uy the unsigned bit patterns of x and y
PackKey(x, y) == ToUint32(y) * U32Range + ToUint32(x)

\* PopulateHashTable, inner loop: the slot where cell goes, or -1 when the
\* probe wraps back to start ("Hash table is full")
RECURSIVE ProbeInsert(_, _, _, _, _)
ProbeInsert(table, mask, cell, index, start) ==
    IF table[index].occupied = 0 THEN index
    ELSE IF table[index].x = cell[1] /\ table[index].y = cell[2] THEN index
    ELSE LET nxt == BitAnd(index + 1, mask)
         IN  IF nxt = start THEN -1
             ELSE ProbeInsert(table, mask, cell, nxt, start)

\* PopulateHashTable: [ok, table, error]
RECURSIVE PopulateFrom(_, _, _, _)
PopulateFrom(currentActive, k, table, mask) ==
    IF k > Len(currentActive) THEN [ ok |-> TRUE, table |-> table, error |-> "" ]
    ELSE LET cell  == currentActive[k]
             start == BitAnd(PackKey(cell[1], cell[2]), mask)
             slot  == ProbeInsert(table, mask, cell, start, start)
         IN  IF slot = -1
             THEN [ ok |-> FALSE, table |-> table, error |-> "Hash table is full" ]
             ELSE PopulateFrom(currentActive, k + 1,
                      [ table EXCEPT ![slot] = [ x |-> cell[1], y |-> cell[2], occupied |-> 1 ] ],
                      mask)

PopulateHashTable(currentActive, table) ==
    PopulateFrom(currentActive, 1, table, Cardinality(DOMAIN table) - 1)

\* is_alive (GameOfLife.metal), the probe loop from index
RECURSIVE ProbeLookup(_, _, _, _, _)
ProbeLookup(cell, table, mask, index, start) ==
    IF table[index].occupied = 0 THEN FALSE
    ELSE IF table[index].x = cell[1] /\ table[index].y = cell[2] THEN TRUE
    ELSE LET nxt == BitAnd(index + 1, mask)
         IN  IF nxt = start THEN FALSE
             ELSE ProbeLookup(cell, table, mask, nxt, start)

\* A plausible slip: only the home slot is examined, no linear probing.
is_aliveHomeSlotOnly(cell, table, mask) ==
    LET index == ToUint32(BitAnd(PackKey(cell[1], cell[2]), mask))
    IN  table[index].occupied # 0 /\ table[index].x = cell[1] /\ table[index].y = cell[2]

\* A plausible slip: the kernel packs its key as (x << 32) | y, so its home
\* slot comes from y while the encoder's comes from x.
is_aliveSwappedKey(cell, table, mask) ==
    LET index == ToUint32(BitAnd(PackKey(cell[2], cell[1]), mask))
    IN  ProbeLookup(cell, table, mask, index, index)

\* the number of table entries the probe loop of is_alive reads from index on
RECURSIVE ProbeLength(_, _, _, _, _)
ProbeLength(cell, table, mask, index, start) ==
    IF table[index].occupied = 0 THEN 1
    ELSE IF table[index].x = cell[1] /\ table[index].y = cell[2] THEN 1
    ELSE LET nxt == BitAnd(index + 1, mask)
         IN  IF nxt = start THEN 1
             ELSE 1 + ProbeLength(cell, table, mask, nxt, start)

\* is_alive (GameOfLife.metal)
is_alive(cell, table, mask) ==
    LET index == ToUint32(BitAnd(PackKey(cell[1], cell[2]), mask))
    IN  ProbeLookup(cell, table, mask, index, index)

(***************************************************************************)
(* The kernel life_step                                                    *)
(***************************************************************************)
\* kNeighborOffsets[8], indexed from 0
kNeighborOffsets ==
    [ i \in 0 .. 7 |->
        << <<-1, -1>>, <<0, -1>>, <<1, -1>>, <<-1, 0>>, <<1, 0>>, <<-1, 1>>, <<0, 1>>, <<1, 1>> >>[i + 1] ]

\* life_step, lines 356-377: the CellState one lane writes to results[gid]
LaneState(cell, table, mask) ==
    LET alive == is_alive(cell, table, mask)
        neighborCountLocal ==
            Cardinality({ i \in 0 .. 7 : is_alive(Vec2iAdd(cell, kNeighborOffsets[i]), table, mask) })
        willLive == IF alive THEN neighborCountLocal \in {2, 3} ELSE neighborCountLocal = 3
    IN  [ x |-> cell[1], y |-> cell[2],
          wasAlive |-> IF alive THEN 1 ELSE 0,
          willBeAlive |-> IF willLive THEN 1 ELSE 0 ]

\* What the out-of-bounds read kNeighborOffsets[8] of the block-writing loop
\* (i < 9 over an array of 8) may yield: zero padding, or some other constant.
OobOffsets == { <<0, 0>>, <<5, 5>> }

\* A slot of the neighbour buffer that this dispatch did not write: it holds
\* whatever an earlier dispatch or the allocator left there.
StaleCell == <<-99, -99>>

\* A plausible slip: the block is written as soon as its first slot fits.
LaneBlockFirstSlotFits(cell, base, maxNeighbors, oob) ==
    IF base < maxNeighbors
    THEN { << ToUint32(base + i),
              Vec2iAdd(cell, IF i < 8 THEN kNeighborOffsets[i] ELSE oob) >> : i \in 0 .. 8 }
    ELSE {}

\* life_step, lines 379-386, for the lane that got `base` from the atomic
\* fetch-add: the slots it writes (none when the block does not fit)
LaneBlock(cell, base, maxNeighbors, oob) ==
    IF ToUint32(base + 9) <= maxNeighbors
    THEN { << ToUint32(base + i),
              Vec2iAdd(cell, IF i < 8 THEN kNeighborOffsets[i] ELSE oob) >> : i \in 0 .. 8 }
    ELSE {}

\* A plausible slip: the lanes read the counter before any of them adds to
\* it, so every block starts at slot 0 and the last writer's block remains.
LifeStepDispatchSharedBase(table, mask, potentialCells, maxNeighbors, order, oob) ==
    [ results |-> [ g \in 1 .. Len(potentialCells) |-> LaneState(potentialCells[g], table, mask) ],
      neighborCount |-> ToUint32(9 * Len(order)),
      writes |-> IF order = << >> THEN {}
                 ELSE LaneBlock(potentialCells[order[Len(order)]], 0, maxNeighbors, oob) ]

\* One dispatch of life_step over potentialCount lanes. `order` is the order
\* in which the lanes whose cell changed performed the atomic fetch-add.
\* Result: results[1..n], the final counter, the slots written.
LifeStepDispatch(table, mask, potentialCells, maxNeighbors, order, oob) ==
    LET results == [ g \in 1 .. Len(potentialCells) |-> LaneState(potentialCells[g], table, mask) ]
        writes  == UNION { LaneBlock(potentialCells[order[j]], ToUint32(9 * (j - 1)),
                                     maxNeighbors, oob) : j \in 1 .. Len(order) }
    IN  [ results |-> results,
          neighborCount |-> ToUint32(9 * Len(order)),
          writes |-> writes ]

\* the lanes of a dispatch that reach the atomic fetch-add (line 379)
ChangedLanes(table, mask, potentialCells) ==
    { g \in 1 .. Len(potentialCells) :
        LET st == LaneState(potentialCells[g], table, mask)
        IN  (st.wasAlive # 0) # (st.willBeAlive # 0) }

(***************************************************************************)
(* The Metal context and its lazily created resources (gpu_calculator.mm)  *)
(***************************************************************************)
SizeofHashEntry == 16
SizeofRawCoordinate == 8
SizeofCellState == 16

\* MetalContext ctx, gInitFlag, gDeviceAvailable, gInitError after static
\* initialisation. A buffer handle is modelled by its length in bytes, 0 = nil.
NewContext ==
    [ initFlag |-> FALSE, deviceAvailable |-> FALSE, initError |-> "",
      device |-> FALSE, queue |-> FALSE, library |-> FALSE, pipeline |-> FALSE,
      paramBuffer |-> FALSE, neighborCountBuffer |-> FALSE,
      tableBuffer |-> 0, tableCapacityBytes |-> 0,
      potentialBuffer |-> 0, potentialCapacityBytes |-> 0,
      outputBuffer |-> 0, outputCapacityBytes |-> 0,
      neighborBuffer |-> 0, neighborCapacityBytes |-> 0 ]

\* What the platform answers during one call: every Metal / filesystem request
\* that can fail, TRUE = it succeeds.
EnvFields ==
    { "device", "queue", "metallib", "library", "function", "pipelineState",
      "paramAlloc", "tableAlloc", "potentialAlloc", "outputAlloc", "neighborAlloc",
      "countAlloc", "commandBuffer", "encoder", "execution" }
EnvAllOk == [ f \in EnvFields |-> TRUE ]

\* the body of the std::call_once in EnsureDevice
InitDevice(c, env) ==
    IF ~env.device
    THEN [ c EXCEPT !.initFlag = TRUE, !.device = FALSE,
                    !.initError = "Metal GPU device unavailable" ]
    ELSE IF ~env.queue
    THEN [ c EXCEPT !.initFlag = TRUE, !.device = FALSE, !.queue = FALSE,
                    !.initError = "Failed to create Metal command queue" ]
    ELSE [ c EXCEPT !.initFlag = TRUE, !.device = TRUE, !.queue = TRUE,
                    !.deviceAvailable = TRUE ]

\* A plausible slip: a failed acquisition reports no error text.
EnsureDeviceSilent(c, env, error) ==
    LET c1 == IF c.initFlag THEN c ELSE InitDevice(c, env)
    IN  [ ctx |-> c1, ok |-> c1.deviceAvailable, error |-> error ]

\* A plausible slip: a failed acquisition is attempted again by the next call.
EnsureDeviceRetry(c, env, error) ==
    LET c1 == IF c.initFlag /\ c.deviceAvailable THEN c ELSE InitDevice(c, env)
    IN  [ ctx |-> c1,
          ok |-> c1.deviceAvailable,
          error |-> IF ~c1.deviceAvailable
                    THEN (IF c1.initError = "" THEN "Metal initialization failed"
                          ELSE c1.initError)
                    ELSE error ]

\* EnsureDevice(error): [ctx, ok, error]
EnsureDevice(c, env, error) ==
    LET c1 == IF c.initFlag THEN c ELSE InitDevice(c, env)
    IN  [ ctx |-> c1,
          ok |-> c1.deviceAvailable,
          error |-> IF ~c1.deviceAvailable
                    THEN (IF c1.initError = "" THEN "Metal initialization failed"
                          ELSE c1.initError)
                    ELSE error ]

\* EnsurePipeline(error): [ctx, ok, error]
EnsurePipeline(c, env, error) ==
    IF c.pipeline THEN [ ctx |-> c, ok |-> TRUE, error |-> error ]
    ELSE
    LET d == EnsureDevice(c, env, error)
    IN  IF ~d.ok THEN [ ctx |-> d.ctx, ok |-> FALSE, error |-> d.error ]
        ELSE IF ~env.metallib
        THEN [ ctx |-> d.ctx, ok |-> FALSE, error |-> "Unable to locate GameOfLife.metallib" ]
        ELSE IF ~env.library
        THEN [ ctx |-> [ d.ctx EXCEPT !.library = FALSE ], ok |-> FALSE,
               error |-> "Failed to load Metal library" ]
        ELSE IF ~env.function
        THEN [ ctx |-> [ d.ctx EXCEPT !.library = TRUE ], ok |-> FALSE,
               error |-> "Metal function 'life_step' not found" ]
        ELSE IF ~env.pipelineState
        THEN [ ctx |-> [ d.ctx EXCEPT !.library = TRUE, !.pipeline = FALSE ], ok |-> FALSE,
               error |-> "Failed to create Metal pipeline state" ]
        ELSE IF ~d.ctx.paramBuffer /\ ~env.paramAlloc
        THEN [ ctx |-> [ d.ctx EXCEPT !.library = TRUE, !.pipeline = TRUE ], ok |-> FALSE,
               error |-> "Failed to allocate parameter buffer" ]
        ELSE [ ctx |-> [ d.ctx EXCEPT !.library = TRUE, !.pipeline = TRUE, !.paramBuffer = TRUE ],
               ok |-> TRUE, error |-> error ]

\* A plausible slip: a buffer is replaced whenever its size differs from the
\* size required, so a smaller step shrinks it.
EnsureBuffersExactFit(c, tableEntries, potentialEntries, env, error) ==
    LET tableBytes     == Max(tableEntries, 1) * SizeofHashEntry
        potentialBytes == Max(potentialEntries, 1) * SizeofRawCoordinate
        outputBytes    == Max(potentialEntries, 1) * SizeofCellState
        neighborBytes  == (Max(potentialEntries, 1) * 9) * SizeofRawCoordinate
    IN
    IF tableBytes # c.tableCapacityBytes /\ ~env.tableAlloc
    THEN [ ctx |-> [ c EXCEPT !.tableBuffer = 0 ], ok |-> FALSE,
           error |-> "Failed to allocate hash table buffer" ]
    ELSE
    LET c1 == IF tableBytes # c.tableCapacityBytes
              THEN [ c EXCEPT !.tableBuffer = tableBytes, !.tableCapacityBytes = tableBytes ]
              ELSE c
    IN
    IF potentialBytes # c1.potentialCapacityBytes /\ ~env.potentialAlloc
    THEN [ ctx |-> [ c1 EXCEPT !.potentialBuffer = 0 ], ok |-> FALSE,
           error |-> "Failed to allocate potential cell buffer" ]
    ELSE
    LET c2 == IF potentialBytes # c1.potentialCapacityBytes
              THEN [ c1 EXCEPT !.potentialBuffer = potentialBytes,
                               !.potentialCapacityBytes = potentialBytes ]
              ELSE c1
    IN
    IF outputBytes # c2.outputCapacityBytes /\ ~env.outputAlloc
    THEN [ ctx |-> [ c2 EXCEPT !.outputBuffer = 0 ], ok |-> FALSE,
           error |-> "Failed to allocate output buffer" ]
    ELSE
    LET c3 == IF outputBytes # c2.outputCapacityBytes
              THEN [ c2 EXCEPT !.outputBuffer = outputBytes, !.outputCapacityBytes = outputBytes ]
              ELSE c2
    IN
    IF neighborBytes # c3.neighborCapacityBytes /\ ~env.neighborAlloc
    THEN [ ctx |-> [ c3 EXCEPT !.neighborBuffer = 0 ], ok |-> FALSE,
           error |-> "Failed to allocate neighbor buffer" ]
    ELSE
    LET c4 == IF neighborBytes # c3.neighborCapacityBytes
              THEN [ c3 EXCEPT !.neighborBuffer = neighborBytes,
                               !.neighborCapacityBytes = neighborBytes ]
              ELSE c3
    IN
    IF ~c4.neighborCountBuffer /\ ~env.countAlloc
    THEN [ ctx |-> c4, ok |-> FALSE, error |-> "Failed to allocate neighbor count buffer" ]
    ELSE [ ctx |-> [ c4 EXCEPT !.neighborCountBuffer = TRUE ], ok |-> TRUE, error |-> error ]

\* EnsureBuffers(tableEntries, potentialEntries, error): [ctx, ok, error]
EnsureBuffers(c, tableEntries, potentialEntries, env, error) ==
    LET tableBytes     == Max(tableEntries, 1) * SizeofHashEntry
        potentialBytes == Max(potentialEntries, 1) * SizeofRawCoordinate
        outputBytes    == Max(potentialEntries, 1) * SizeofCellState
        neighborBytes  == (Max(potentialEntries, 1) * 9) * SizeofRawCoordinate
    IN
    IF tableBytes > c.tableCapacityBytes /\ ~env.tableAlloc
    THEN [ ctx |-> [ c EXCEPT !.tableBuffer = 0 ], ok |-> FALSE,
           error |-> "Failed to allocate hash table buffer" ]
    ELSE
    LET c1 == IF tableBytes > c.tableCapacityBytes
              THEN [ c EXCEPT !.tableBuffer = tableBytes, !.tableCapacityBytes = tableBytes ]
              ELSE c
    IN
    IF potentialBytes > c1.potentialCapacityBytes /\ ~env.potentialAlloc
    THEN [ ctx |-> [ c1 EXCEPT !.potentialBuffer = 0 ], ok |-> FALSE,
           error |-> "Failed to allocate potential cell buffer" ]
    ELSE
    LET c2 == IF potentialBytes > c1.potentialCapacityBytes
              THEN [ c1 EXCEPT !.potentialBuffer = potentialBytes,
                               !.potentialCapacityBytes = potentialBytes ]
              ELSE c1
    IN
    IF outputBytes > c2.outputCapacityBytes /\ ~env.outputAlloc
    THEN [ ctx |-> [ c2 EXCEPT !.outputBuffer = 0 ], ok |-> FALSE,
           error |-> "Failed to allocate output buffer" ]
    ELSE
    LET c3 == IF outputBytes > c2.outputCapacityBytes
              THEN [ c2 EXCEPT !.outputBuffer = outputBytes, !.outputCapacityBytes = outputBytes ]
              ELSE c2
    IN
    IF neighborBytes > c3.neighborCapacityBytes /\ ~env.neighborAlloc
    THEN [ ctx |-> [ c3 EXCEPT !.neighborBuffer = 0 ], ok |-> FALSE,
           error |-> "Failed to allocate neighbor buffer" ]
    ELSE
    LET c4 == IF neighborBytes > c3.neighborCapacityBytes
              THEN [ c3 EXCEPT !.neighborBuffer = neighborBytes,
                               !.neighborCapacityBytes = neighborBytes ]
              ELSE c3
    IN
    IF ~c4.neighborCountBuffer /\ ~env.countAlloc
    THEN [ ctx |-> c4, ok |-> FALSE, error |-> "Failed to allocate neighbor count buffer" ]
    ELSE [ ctx |-> [ c4 EXCEPT !.neighborCountBuffer = TRUE ], ok |-> TRUE, error |-> error ]

\* GpuTimingStats (durations left out) after `gTimingStats = {}`
NewTimingStats == [ lastUsedGPU |-> FALSE, neighborOverflow |-> FALSE ]

\* A plausible slip: lastUsedGPU tells that the pipeline exists, not that
\* this call ran on it.
RawFailurePipelineFlag(c, error, died) ==
    [ ok |-> FALSE, usedGPU |-> FALSE, error |-> error, results |-> << >>,
      neighborOutputs |-> << >>, ctx |-> c,
      timing |-> [ lastUsedGPU |-> c.pipeline, neighborOverflow |-> FALSE ], crashed |-> died ]

\* the early returns of CalculateNextGenerationRaw: results and
\* neighborOutputs cleared, usedGPU false, gTimingStats as reset at entry
RawFailure(c, error, died) ==
    [ ok |-> FALSE, usedGPU |-> FALSE, error |-> error, results |-> << >>,
      neighborOutputs |-> << >>, ctx |-> c, timing |-> NewTimingStats, crashed |-> died ]

\* lines 428-505 of CalculateNextGenerationRaw: upload, dispatch, download
RawDispatch(c, table, potentialCells, desiredTableSize, env, laneOrder, oob) ==
    LET hashMask     == ToUint32(desiredTableSize - 1)
        maxNeighbors == ToUint32(c.neighborCapacityBytes \div SizeofRawCoordinate)
    IN
    IF \/ c.tableBuffer = 0 \/ c.potentialBuffer = 0 \/ c.outputBuffer = 0
       \/ c.neighborBuffer = 0 \/ ~c.neighborCountBuffer \/ ~c.paramBuffer
    THEN \* [nil contents] is a null pointer: the memcpy / store through it
         \* (or the kernel's access) ends the process
         RawFailure(c, "", TRUE)
    ELSE IF ~env.commandBuffer THEN RawFailure(c, "Failed to create command buffer", FALSE)
    ELSE IF ~env.encoder THEN RawFailure(c, "Failed to create compute command encoder", FALSE)
    ELSE IF ~env.execution THEN RawFailure(c, "Command buffer execution failed", FALSE)
    ELSE
    LET changed == ChangedLanes(table, hashMask, potentialCells)
        order   == SelectSeq(laneOrder, LAMBDA g : g \in changed)
        run     == LifeStepDispatch(table, hashMask, potentialCells, maxNeighbors, order, oob)
        rawNeighborCount == run.neighborCount
        neighborCount    == Min(rawNeighborCount, maxNeighbors)
        slot(k) == IF \E w \in run.writes : w[1] = k
                   THEN (CHOOSE w \in run.writes : w[1] = k)[2]
                   ELSE StaleCell
    IN  [ ok |-> TRUE, usedGPU |-> TRUE, error |-> "",
          results |-> run.results,
          neighborOutputs |-> [ k \in 1 .. neighborCount |-> slot(k - 1) ],
          ctx |-> c,
          timing |-> [ lastUsedGPU |-> TRUE,
                       neighborOverflow |-> rawNeighborCount > maxNeighbors ],
          crashed |-> FALSE ]

\* detail::CalculateNextGenerationRaw; currentActive and potentialCells are
\* the vectors, laneOrder the order in which the device ran the lanes
CalculateNextGenerationRaw(c, currentActive, potentialCells, env, laneOrder, oob) ==
    IF Len(potentialCells) > Uint32Max
    THEN RawFailure(c, "Too many potential cells for GPU dispatch", FALSE)
    ELSE
    LET p == EnsurePipeline(c, env, "")
    IN
    IF ~p.ok THEN RawFailure(p.ctx, p.error, FALSE)
    ELSE IF Len(potentialCells) = 0
    THEN [ ok |-> TRUE, usedGPU |-> TRUE, error |-> "", results |-> << >>,
           neighborOutputs |-> << >>, ctx |-> p.ctx,
           timing |-> [ NewTimingStats EXCEPT !.lastUsedGPU = TRUE ], crashed |-> FALSE ]
    ELSE
    LET desiredTableSize == NextPowerOfTwo(Max(1, Len(currentActive) * 2))
    IN
    IF desiredTableSize = 0 \/ desiredTableSize > kMaxTableEntries
    THEN RawFailure(p.ctx, "Active cell count is too large for GPU hash table", FALSE)
    ELSE
    LET h == PopulateHashTable(currentActive, NewTable(desiredTableSize))
    IN
    IF ~h.ok THEN RawFailure(p.ctx, h.error, FALSE)
    ELSE
    LET b == EnsureBuffers(p.ctx, desiredTableSize, Len(potentialCells), env, "")
    IN
    IF ~b.ok THEN RawFailure(b.ctx, b.error, FALSE)
    ELSE RawDispatch(b.ctx, h.table, potentialCells, desiredTableSize, env, laneOrder, oob)

\* A plausible slip: the neighbour buffer is used whatever its length.
DecodeCellStatesFastOnly(raw, currentActive, nextActiveIn, nextPotentialIn) ==
    LET states == raw.results
        neighborCells == raw.neighborOutputs
    IN
    IF ~raw.ok
    THEN [ ok |-> FALSE, usedGPU |-> FALSE, error |-> raw.error,
           nextActive |-> nextActiveIn, nextPotential |-> nextPotentialIn,
           ctx |-> raw.ctx, timing |-> raw.timing, crashed |-> raw.crashed ]
    ELSE [ ok |-> TRUE, usedGPU |-> raw.usedGPU, error |-> "",
           nextActive |-> { <<states[k].x, states[k].y>> :
                              k \in { j \in 1 .. Len(states) : states[j].willBeAlive # 0 } },
           nextPotential |->
               currentActive \cup { neighborCells[k] : k \in 1 .. Len(neighborCells) },
           ctx |-> raw.ctx, timing |-> raw.timing, crashed |-> FALSE ]

\* A plausible slip: the caller's sets are cleared before the states are computed.
DecodeCellStatesClearFirst(raw, currentActive, nextActiveIn, nextPotentialIn) ==
    LET states == raw.results
        neighborCells == raw.neighborOutputs
        changedStates == { k \in 1 .. Len(states) :
                             (states[k].wasAlive # 0) # (states[k].willBeAlive # 0) }
    IN
    IF ~raw.ok
    THEN [ ok |-> FALSE, usedGPU |-> FALSE, error |-> raw.error,
           nextActive |-> {}, nextPotential |-> {},
           ctx |-> raw.ctx, timing |-> raw.timing, crashed |-> raw.crashed ]
    ELSE [ ok |-> TRUE, usedGPU |-> raw.usedGPU, error |-> "",
           nextActive |-> { <<states[k].x, states[k].y>> :
                              k \in { j \in 1 .. Len(states) : states[j].willBeAlive # 0 } },
           nextPotential |->
               currentActive \cup
               (IF Len(neighborCells) >= Cardinality(changedStates) * 9
                THEN { neighborCells[k] : k \in 1 .. Len(neighborCells) }
                ELSE UNION { Square3x3(<<states[k].x, states[k].y>>) : k \in changedStates }),
           ctx |-> raw.ctx, timing |-> raw.timing, crashed |-> FALSE ]

\* A plausible slip: the list is taken when it has an entry per changed cell.
DecodeCellStatesEntryPerCell(raw, currentActive, nextActiveIn, nextPotentialIn) ==
    LET states == raw.results
        neighborCells == raw.neighborOutputs
        changedStates == { k \in 1 .. Len(states) :
                             (states[k].wasAlive # 0) # (states[k].willBeAlive # 0) }
    IN
    IF ~raw.ok
    THEN [ ok |-> FALSE, usedGPU |-> FALSE, error |-> raw.error,
           nextActive |-> nextActiveIn, nextPotential |-> nextPotentialIn,
           ctx |-> raw.ctx, timing |-> raw.timing, crashed |-> raw.crashed ]
    ELSE [ ok |-> TRUE, usedGPU |-> raw.usedGPU, error |-> "",
           nextActive |-> { <<states[k].x, states[k].y>> :
                              k \in { j \in 1 .. Len(states) : states[j].willBeAlive # 0 } },
           nextPotential |->
               currentActive \cup
               (IF Len(neighborCells) >= Cardinality(changedStates)
                THEN { neighborCells[k] : k \in 1 .. Len(neighborCells) }
                ELSE UNION { Square3x3(<<states[k].x, states[k].y>>) : k \in changedStates }),
           ctx |-> raw.ctx, timing |-> raw.timing, crashed |-> FALSE ]

\* gol::gpu::CalculateNextGeneration after ComputeCellStates returned `raw`:
\* the decoder. nextActive / nextPotential are the caller's sets before the call.
DecodeCellStates(raw, currentActive, nextActiveIn, nextPotentialIn) ==
    LET states == raw.results
        neighborCells == raw.neighborOutputs
        changedStates == { k \in 1 .. Len(states) :
                             (states[k].wasAlive # 0) # (states[k].willBeAlive # 0) }
        changedCount == Cardinality(changedStates)
    IN
    IF ~raw.ok
    THEN [ ok |-> FALSE, usedGPU |-> FALSE, error |-> raw.error,
           nextActive |-> nextActiveIn, nextPotential |-> nextPotentialIn,
           ctx |-> raw.ctx, timing |-> raw.timing, crashed |-> raw.crashed ]
    ELSE [ ok |-> TRUE, usedGPU |-> raw.usedGPU, error |-> "",
           nextActive |-> { <<states[k].x, states[k].y>> :
                              k \in { j \in 1 .. Len(states) : states[j].willBeAlive # 0 } },
           nextPotential |->
               currentActive \cup
               (IF Len(neighborCells) >= changedCount * 9
                THEN { neighborCells[k] : k \in 1 .. Len(neighborCells) }
                ELSE UNION { Square3x3(<<states[k].x, states[k].y>>) : k \in changedStates }),
           ctx |-> raw.ctx, timing |-> raw.timing, crashed |-> FALSE ]

\* gol::gpu::CalculateNextGeneration: ComputeCellStates, then the decoder
CalculateNextGenerationGpu(c, currentActiveVec, potentialVec, nextActiveIn, nextPotentialIn, env, laneOrder, oob) ==
    DecodeCellStates(
        CalculateNextGenerationRaw(c, currentActiveVec, potentialVec, env, laneOrder, oob),
        { currentActiveVec[k] : k \in 1 .. Len(currentActiveVec) },
        nextActiveIn, nextPotentialIn)

(***************************************************************************)
(* GameState operations and the CPU run                                    *)
(***************************************************************************)
\* the device before any dispatch: empty buffers, no lanes
KernelIdle ==
    [ phase |-> "idle", table |-> NewTable(0), potentialCells |-> << >>,
      params |-> [ tableSize |-> 0, potentialCount |-> 0, hashMask |-> 0, maxNeighbors |-> 0 ],
      results |-> << >>, counter |-> 0, pc |-> << >>, base |-> << >>, writes |-> {},
      oob |-> <<0, 0>> ]

\* SparseEncodedGOL after construction: empty sets, simulation paused
NewApp ==
    [ setActive |-> {}, setActiveNext |-> {}, setPotential |-> {}, setPotentialNext |-> {},
      bSimulationRunning |-> FALSE ]

\* no ComputeCellStates call made yet
NoRaw ==
    [ currentActive |-> << >>, potentialCells |-> << >>, laneOrder |-> << >>, oob |-> <<0, 0>>,
      ok |-> FALSE, results |-> << >>, neighborOutputs |-> << >> ]

\* the GPU module after static initialisation, no call made yet
GpuInit ==
    /\ cpuNext = [ active |-> {}, potential |-> {} ]
    /\ gpuActive = {}
    /\ gpuPotential = {}
    /\ nextActive = {}
    /\ nextPotential = {}
    /\ retOk = FALSE
    /\ usedGPU = FALSE
    /\ errorMessage = ""
    /\ ctx = NewContext
    /\ timing = NewTimingStats
    /\ crashed = FALSE
    /\ fault = "none"
    /\ nFaults = 0
    /\ nCalls = 0
    /\ requested = FALSE
    /\ queryResult = FALSE
    /\ pairOob = <<0, 0>>
    /\ pairNeighborCells = << >>
    /\ kernel = KernelIdle
    /\ lastRaw = NoRaw
    /\ app = NewApp

Init ==
    /\ active = {}
    /\ potential = {}
    /\ origin = {}
    /\ nAdds = 0
    /\ nSteps = 0
    /\ nRemoves = 0
    /\ lastOp = "init"
    /\ GpuInit

\* A plausible slip: only the cell itself is marked potential.
addCellPotentialSelfOnly(cell) == { cell }

\* GameState::addCell: the cells inserted into potential
addCellPotential(cell) == Square3x3(cell)

\* GameState::addCell
AddCell ==
    \E cell \in Grid :
        /\ nAdds < MaxAdds
        /\ active' = active \cup { cell }
        /\ potential' = potential \cup addCellPotential(cell)
        /\ nAdds' = nAdds + 1
        /\ lastOp' = "addCell"
        /\ UNCHANGED <<origin, nSteps, nRemoves, gpuVars>>

\* current = next after GameLogic::calculateNextGeneration(current, next),
\* as in the loops of ASSERT_PATTERN_STABLE, ASSERT_PATTERN_CYCLES, test_spaceships
StepUpTo(limit) ==
    /\ nSteps < limit
    /\ LET next == calculateNextGenerationInto(active, potential, cpuNext)
       IN  /\ cpuNext' = next
           /\ active' = next.active
           /\ potential' = next.potential
    /\ nSteps' = nSteps + 1
    /\ lastOp' = "step"
    /\ UNCHANGED <<origin, nAdds, nRemoves, gpuActive, gpuPotential, nextActive, nextPotential, retOk,
                   usedGPU, errorMessage, ctx, timing, crashed, fault, nFaults, nCalls,
                   requested, queryResult, pairOob, pairNeighborCells, kernel, lastRaw, app>>

Step == StepUpTo(MaxSteps)

Next == AddCell \/ Step

\* Any sequence of addCell and calculateNextGeneration from the empty GameState.
Spec == Init /\ [][Next]_vars

\* GameState::removeCell
RemoveCell ==
    \E cell \in Grid :
        /\ nRemoves < MaxRemoves
        /\ active' = active \ { cell }
        /\ nRemoves' = nRemoves + 1
        /\ lastOp' = "removeCell"
        /\ UNCHANGED <<potential, origin, nAdds, nSteps, gpuVars>>

\* GameState::clear
Clear ==
    /\ nRemoves < MaxRemoves
    /\ active' = {}
    /\ potential' = {}
    /\ nRemoves' = nRemoves + 1
    /\ lastOp' = "clear"
    /\ UNCHANGED <<origin, nAdds, nSteps, gpuVars>>

NextEdit == AddCell \/ RemoveCell \/ Clear \/ Step

\* Any sequence of addCell, removeCell, clear and calculateNextGeneration
\* from the empty GameState.
SpecEdit == Init /\ [][NextEdit]_vars

(***************************************************************************)
(* The pattern tests: a pattern is built with addCell from the empty       *)
(* GameState and then stepped (test_still_lifes, test_oscillators,         *)
(* test_spaceships).                                                       *)
(***************************************************************************)
Block == { <<0, 0>>, <<1, 0>>, <<0, 1>>, <<1, 1>> }
Beehive == { <<1, 0>>, <<2, 0>>, <<0, 1>>, <<3, 1>>, <<1, 2>>, <<2, 2>> }
Blinker == { <<0, 0>>, <<1, 0>>, <<2, 0>> }
BlinkerVertical == { <<1, -1>>, <<1, 0>>, <<1, 1>> }
Glider == { <<1, 0>>, <<2, 1>>, <<0, 2>>, <<1, 2>>, <<2, 2>> }
PatternCells == Block \cup Beehive \cup Blinker \cup Glider

\* GameState::addCell while a pattern is being built (no step taken yet)
BuildCell ==
    \E cell \in PatternCells :
        /\ nSteps = 0
        /\ nAdds < PatAdds
        /\ active' = active \cup { cell }
        /\ potential' = potential \cup addCellPotential(cell)
        /\ origin' = active'
        /\ nAdds' = nAdds + 1
        /\ lastOp' = "addCell"
        /\ UNCHANGED <<nSteps, nRemoves, gpuVars>>

RunStep == StepUpTo(PatSteps)

NextPattern == BuildCell \/ RunStep

SpecPattern == Init /\ [][NextPattern]_vars

(***************************************************************************)
(* Iteration orders: an unordered_set is copied into a vector in its       *)
(* iteration order, and the device runs the lanes in its own order.        *)
(***************************************************************************)
\* the cells of S row by row (y, then x)
Ascending(S) ==
    IF S = {} THEN << >>
    ELSE LET xs == { c[1] : c \in S }
             ys == { c[2] : c \in S }
             x0 == CHOOSE x \in xs : \A z \in xs : x <= z
             x1 == CHOOSE x \in xs : \A z \in xs : x >= z
             y0 == CHOOSE y \in ys : \A z \in ys : y <= z
             y1 == CHOOSE y \in ys : \A z \in ys : y >= z
             w  == x1 - x0 + 1
             box == [ k \in 1 .. w * (y1 - y0 + 1) |->
                        << x0 + ((k - 1) % w), y0 + ((k - 1) \div w) >> ]
         IN  SelectSeq(box, LAMBDA c : c \in S)

Reverse(q) == [ k \in 1 .. Len(q) |-> q[Len(q) + 1 - k] ]

RECURSIVE Perms(_)
Perms(S) ==
    IF S = {} THEN { << >> }
    ELSE UNION { { << c >> \o q : q \in Perms(S \ { c }) } : c \in S }

\* the vectors ComputeCellStates may build from the set S
VecOrders(S) ==
    IF Cardinality(S) <= MaxPermLen THEN Perms(S)
    ELSE { Ascending(S), Reverse(Ascending(S)) }

Iota(n) == [ k \in 1 .. n |-> k ]

\* the orders in which the device may run lanes 1..n
LaneOrders(n) ==
    IF n <= MaxPermLen
    THEN { [ k \in 1 .. n |-> CHOOSE g \in 1 .. n : q[k] = <<g, 0>> ] :
             q \in Perms({ <<g, 0>> : g \in 1 .. n }) }
    ELSE { Iota(n), Reverse(Iota(n)) }

(***************************************************************************)
(* One input pair given to both paths: the CPU step and a GPU step on a    *)
(* fresh context with a working device.                                    *)
(***************************************************************************)
PairGrid == { <<c[1] - 1, c[2] - 1>> : c \in Grid }
PotCells == { <<0, 0>>, <<-1, -1>>, <<1, 0>>, <<2, 0>> }

InitPair ==
    /\ active \in SUBSET PairGrid
    /\ potential \in SUBSET PotCells
    /\ origin = {}
    /\ nAdds = 0
    /\ nSteps = 0
    /\ nRemoves = 0
    /\ lastOp = "init"
    /\ GpuInit

ApplyPair ==
    /\ lastOp = "init"
    /\ \E aVec \in VecOrders(active), pVec \in VecOrders(potential),
          laneOrder \in LaneOrders(Cardinality(potential)), oob \in OobOffsets :
          \E g \in { CalculateNextGenerationGpu(ctx, aVec, pVec, nextActive, nextPotential,
                                                EnvAllOk, laneOrder, oob) } :
              /\ nextActive' = g.nextActive
              /\ nextPotential' = g.nextPotential
              /\ retOk' = g.ok
              /\ usedGPU' = g.usedGPU
              /\ errorMessage' = g.error
              /\ ctx' = g.ctx
              /\ timing' = g.timing
              /\ crashed' = g.crashed
              /\ pairOob' = oob
              /\ pairNeighborCells'
                    = CalculateNextGenerationRaw(ctx, aVec, pVec, EnvAllOk, laneOrder,
                                                 oob).neighborOutputs
    /\ fault' = "none"
    /\ nFaults' = nFaults
    /\ cpuNext' = calculateNextGeneration(active, potential)
    /\ nCalls' = nCalls + 1
    /\ lastOp' = "pair"
    /\ UNCHANGED <<cpuVars, gpuActive, gpuPotential, requested, queryResult, kernel, lastRaw, app>>

NextPair == ApplyPair

SpecPair == InitPair /\ [][NextPair]_vars

(***************************************************************************)
(* A session with the GPU module: a GameState is built, then stepped on    *)
(* the GPU path and, in lockstep, on the CPU path.                         *)
(***************************************************************************)
\* the GameState after addCell on every cell of `added`, then removeCell on
\* every cell of `removed` (removeCell erases from active only)
Built(added, removed) ==
    [ active    |-> added \ removed,
      potential |-> UNION { addCellPotential(c) : c \in added } ]

Row(n) == { <<x, 0>> : x \in 0 .. n - 1 }
Tromino == { <<0, 0>>, <<1, 0>>, <<0, 1>> }
RowLive == { <<1, 0>>, <<2, 0>>, <<3, 0>> }

\* a row whose potential set has U32Range \div 9 + 1 cells: nine slots per
\* potential cell no longer fit the 32-bit maxNeighbors
OverflowRowLen == (((U32Range \div 9) + 1) \div 3) - 2
\* a row whose potential set has more than Uint32Max cells
DispatchRowLen == U32Range \div 3
\* a row with more live cells than half of kMaxTableEntries
OverCapRowLen == (kMaxTableEntries \div 2) + 1

Scenes ==
    { Built(Tromino, {}),
      Built(Blinker, {}),
      Built(Row(OverflowRowLen), Row(OverflowRowLen) \ RowLive),
      Built(Row(DispatchRowLen), Row(DispatchRowLen) \ RowLive),
      Built(Row(OverCapRowLen), {}) }

LoadScene ==
    /\ lastOp = "init"
    /\ \E scene \in Scenes :
          /\ active' = scene.active
          /\ potential' = scene.potential
          /\ origin' = scene.active
          /\ gpuActive' = scene.active
          /\ gpuPotential' = scene.potential
    /\ lastOp' = "load"
    /\ UNCHANGED <<nAdds, nSteps, nRemoves, cpuNext, nextActive, nextPotential, retOk, usedGPU,
                   errorMessage, ctx, timing, crashed, fault, nFaults, nCalls, requested,
                   queryResult, pairOob, pairNeighborCells, kernel, lastRaw, app>>

\* the platform's answers that a call may meet: at most one request fails
\* per call, in at most MaxFaults calls of a session
EnvsNow(fields) ==
    IF nFaults < MaxFaults
    THEN { EnvAllOk } \cup { [ EnvAllOk EXCEPT ![f] = FALSE ] : f \in fields }
    ELSE { EnvAllOk }

\* the two directions in which this model lets an unordered_set iterate
SetOrders == { "rowByRow", "reverse" }
VecIn(S, dir) == IF dir = "rowByRow" THEN Ascending(S) ELSE Reverse(Ascending(S))

FaultOf(env) == IF env = EnvAllOk THEN "none" ELSE CHOOSE f \in EnvFields : ~env[f]

\* One iteration of the lockstep loop: gol::gpu::CalculateNextGeneration on
\* the GPU run with the caller's `next` sets, GameLogic::calculateNextGeneration
\* on the same input and on the CPU run; `current = next` for both runs when
\* the GPU call returned true.
GpuStep ==
    /\ lastOp # "init" /\ ~crashed /\ nCalls < MaxCalls
    /\ \E cpu \in { calculateNextGeneration(active, potential) },
          same \in { calculateNextGeneration(gpuActive, gpuPotential) } :
       \E dir \in SetOrders, laneOrder \in LaneOrders(Cardinality(gpuPotential)) :
       \E aVec \in { VecIn(gpuActive, dir) }, pVec \in { VecIn(gpuPotential, dir) } :
       \E env \in EnvsNow(EnvFields), oob \in OobOffsets :
       \E g \in { CalculateNextGenerationGpu(ctx, aVec, pVec, nextActive, nextPotential,
                                             env, laneOrder, oob) } :
          /\ nextActive' = g.nextActive
          /\ nextPotential' = g.nextPotential
          /\ retOk' = g.ok
          /\ usedGPU' = g.usedGPU
          /\ errorMessage' = g.error
          /\ ctx' = g.ctx
          /\ timing' = g.timing
          /\ crashed' = g.crashed
          /\ fault' = FaultOf(env)
          /\ nFaults' = IF env = EnvAllOk THEN nFaults ELSE nFaults + 1
          /\ cpuNext' = same
          /\ IF g.ok
             THEN /\ gpuActive' = g.nextActive
                  /\ gpuPotential' = g.nextPotential
                  /\ active' = cpu.active
                  /\ potential' = cpu.potential
                  /\ nSteps' = nSteps + 1
             ELSE UNCHANGED <<gpuActive, gpuPotential, active, potential, nSteps>>
    /\ nCalls' = nCalls + 1
    /\ lastOp' = "gpuStep"
    /\ UNCHANGED <<origin, nAdds, nRemoves, requested, queryResult, pairOob, pairNeighborCells, kernel, lastRaw, app>>

\* gol::gpu::IsAvailable
IsAvailable ==
    /\ ~crashed /\ nCalls < MaxCalls
    /\ \E env \in EnvsNow({ "device", "queue" }) :
          /\ ctx' = EnsureDevice(ctx, env, "").ctx
          /\ queryResult' = EnsureDevice(ctx, env, "").ok
          /\ fault' = FaultOf(env)
          /\ nFaults' = IF env = EnvAllOk THEN nFaults ELSE nFaults + 1
    /\ nCalls' = nCalls + 1
    /\ lastOp' = IF lastOp = "init" THEN "init" ELSE "isAvailable"
    /\ UNCHANGED <<cpuVars, cpuNext, gpuActive, gpuPotential, nextActive, nextPotential,
                   retOk, usedGPU, errorMessage, timing, crashed, requested, pairOob, pairNeighborCells, kernel, lastRaw, app>>

\* gol::gpu::SetEnabled
SetEnabled ==
    /\ lastOp # "init" /\ ~crashed /\ nCalls < MaxCalls
    /\ \E enabled \in BOOLEAN :
          /\ enabled # requested   \* storing the value already there changes nothing
          /\ requested' = enabled
    /\ nCalls' = nCalls + 1
    /\ lastOp' = "setEnabled"
    /\ fault' = "none"
    /\ UNCHANGED <<cpuVars, cpuNext, gpuActive, gpuPotential, nextActive, nextPotential,
                   retOk, usedGPU, errorMessage, ctx, timing, crashed, nFaults, queryResult,
                   pairOob, pairNeighborCells, kernel, lastRaw, app>>

\* gol::gpu::IsEnabled
IsEnabled ==
    /\ lastOp # "init" /\ ~crashed /\ nCalls < MaxCalls
    /\ IF ~requested
       THEN /\ queryResult' = FALSE
            /\ UNCHANGED <<ctx, nFaults>>
            /\ fault' = "none"
       ELSE \E env \in EnvsNow({ "device", "queue" }) :
               /\ ctx' = EnsureDevice(ctx, env, "").ctx
               /\ queryResult' = EnsureDevice(ctx, env, "").ok
               /\ fault' = FaultOf(env)
               /\ nFaults' = IF env = EnvAllOk THEN nFaults ELSE nFaults + 1
    /\ nCalls' = nCalls + 1
    /\ lastOp' = "isEnabled"
    /\ UNCHANGED <<cpuVars, cpuNext, gpuActive, gpuPotential, nextActive, nextPotential,
                   retOk, usedGPU, errorMessage, timing, crashed, requested, pairOob, pairNeighborCells, kernel, lastRaw, app>>

\* gol::gpu::ResetCaches
ResetCaches ==
    /\ lastOp # "init" /\ ~crashed /\ nCalls < MaxCalls
    /\ ctx' = [ ctx EXCEPT !.tableBuffer = 0, !.tableCapacityBytes = 0,
                           !.potentialBuffer = 0, !.potentialCapacityBytes = 0,
                           !.outputBuffer = 0, !.outputCapacityBytes = 0,
                           !.paramBuffer = FALSE, !.pipeline = FALSE, !.library = FALSE,
                           !.neighborBuffer = 0, !.neighborCapacityBytes = 0,
                           !.neighborCountBuffer = FALSE ]
    /\ nCalls' = nCalls + 1
    /\ lastOp' = "resetCaches"
    /\ fault' = "none"
    /\ nFaults' = nFaults
    /\ UNCHANGED <<cpuVars, cpuNext, gpuActive, gpuPotential, nextActive, nextPotential,
                   retOk, usedGPU, errorMessage, timing, crashed, requested, queryResult,
                   pairOob, pairNeighborCells, kernel, lastRaw, app>>

\* gol::gpu::GetTimingStats, called after a step as RunBenchmark does: the
\* caller gets a copy of gTimingStats
GetTimingStats ==
    /\ lastOp = "gpuStep" /\ ~crashed /\ nCalls < MaxCalls
    /\ timing' = timing
    /\ nCalls' = nCalls + 1
    /\ lastOp' = "getTimingStats"
    /\ fault' = "none"
    /\ UNCHANGED <<cpuVars, cpuNext, gpuActive, gpuPotential, nextActive, nextPotential,
                   retOk, usedGPU, errorMessage, ctx, crashed, nFaults, requested,
                   queryResult, pairOob, pairNeighborCells, kernel, lastRaw, app>>

NextGpu ==
    \/ LoadScene \/ GpuStep \/ IsAvailable \/ ResetCaches \/ SetEnabled \/ IsEnabled
    \/ GetTimingStats

SpecGpu == Init /\ [][NextGpu]_vars

(***************************************************************************)
(* Conway's rule on the whole plane, stated independently of the engine    *)
(***************************************************************************)
EightOffsets ==
    { <<-1, -1>>, <<0, -1>>, <<1, -1>>, <<-1, 0>>, <<1, 0>>, <<-1, 1>>, <<0, 1>>, <<1, 1>> }

LiveAround(A, c) == Cardinality({ d \in EightOffsets : <<c[1] + d[1], c[2] + d[2]>> \in A })

ConwayAlive(A, c) ==
    \/ c \in A /\ LiveAround(A, c) \in {2, 3}
    \/ c \notin A /\ LiveAround(A, c) = 3

\* Only a cell within distance 1 of a live cell can be alive in the successor.
Reach(A) == A \cup UNION { { <<a[1] + d[1], a[2] + d[2]>> : d \in EightOffsets } : a \in A }

ConwaySuccessor(A) == { c \in Reach(A) : ConwayAlive(A, c) }

Shift(A, dx, dy) == { <<c[1] + dx, c[2] + dy>> : c \in A }

(***************************************************************************)
(* C4: in every state reachable from the empty GameState by addCell and    *)
(* calculateNextGeneration calls, one further calculateNextGeneration      *)
(* yields the full-plane Conway successor of the current active set.       *)
(***************************************************************************)
C4_StepIsFullPlaneSuccessor ==
    calculateNextGeneration(active, potential).active = ConwaySuccessor(active)

\* a state produced by steps and edits whose potential set leaves out part of
\* the neighbourhood of the live cells, and whose successor differs from it
C4_Witness ==
    /\ nSteps > 0
    /\ lastOp = "addCell"
    /\ Reach(active) \ potential # {}
    /\ ConwaySuccessor(active) # active
    /\ ConwaySuccessor(active) # {}

(***************************************************************************)
(* C8: a still life built with addCell (the 2x2 block, the beehive) has    *)
(* an active set identical to the original after every step.               *)
(***************************************************************************)
C8_StillLifeStable ==
    origin \in { Block, Beehive } => active = origin

C8_Witness ==
    /\ origin = Beehive
    /\ nSteps = 3
    /\ lastOp = "step"

(***************************************************************************)
(* C9: the blinker {(0,0),(1,0),(2,0)} built with addCell is               *)
(* {(1,-1),(1,0),(1,1)} after one step, the original after two, and keeps  *)
(* alternating between the two.                                            *)
(***************************************************************************)
C9_BlinkerAlternates ==
    origin = Blinker =>
        /\ nSteps % 2 = 1 => active = BlinkerVertical
        /\ nSteps % 2 = 0 => active = Blinker

C9_Witness ==
    /\ origin = Blinker
    /\ nSteps = 3
    /\ active = BlinkerVertical

(***************************************************************************)
(* C10: the glider {(1,0),(2,1),(0,2),(1,2),(2,2)} built with addCell is,  *)
(* after exactly 4 steps, the original shifted by (+1,+1), population 5.   *)
(***************************************************************************)
C10_GliderMoves ==
    origin = Glider /\ nSteps = 4 =>
        /\ active = Shift(Glider, 1, 1)
        /\ Cardinality(active) = 5

C10_Witness ==
    /\ origin = Glider
    /\ nSteps = 4
    /\ <<3, 3>> \in active

(***************************************************************************)
(* C1: a successful GPU step yields the same nextActive as the CPU step    *)
(* on the same (active, potential) input, in every Conway case.            *)
(***************************************************************************)
C1_GpuNextActiveEqualsCpu ==
    lastOp = "pair" /\ retOk => nextActive = cpuNext.active

\* a successful GPU step over an input with a death by overpopulation, a
\* survivor and a birth among the potential cells
C1_Witness ==
    /\ lastOp = "pair" /\ retOk /\ usedGPU
    /\ \E c \in potential \cap active : LiveAround(active, c) >= 4 /\ c \notin nextActive
    /\ \E c \in potential \cap active : c \in nextActive
    /\ \E c \in potential \ active : c \in nextActive

(***************************************************************************)
(* C3: the CPU step puts a potential cell c in next.active iff c is alive  *)
(* with 2 or 3 live neighbours or dead with exactly 3; a cell outside      *)
(* potential is never put in next.active.                                  *)
(***************************************************************************)
C3_CpuRule ==
    lastOp = "pair" =>
        /\ \A c \in potential : c \in cpuNext.active <=> ConwayAlive(active, c)
        /\ cpuNext.active \subseteq potential

\* a step with a birth and a survivor among the potential cells, and a live
\* cell with 2 or 3 live neighbours that is left out because it is not potential
C3_Witness ==
    /\ lastOp = "pair"
    /\ \E c \in potential \ active : c \in cpuNext.active
    /\ \E c \in potential \cap active : c \in cpuNext.active
    /\ \E c \in active \ potential : ConwayAlive(active, c) /\ c \notin cpuNext.active

(***************************************************************************)
(* C2: started from the same (active, potential) state and fed their own   *)
(* outputs, the GPU run and the CPU run have equal active sets and equal   *)
(* potential sets after every step.                                        *)
(***************************************************************************)
C2_LockstepEqual ==
    lastOp = "gpuStep" /\ retOk => gpuActive = active /\ gpuPotential = potential

\* the cells of P whose state differs between A and the next generation
ChangedCells(A, P) == { c \in P : (c \in A) # ConwayAlive(A, c) }

\* params.maxNeighbors of a dispatch made with the buffers of context c
MaxNeighborsOf(c) == ToUint32(c.neighborCapacityBytes \div SizeofRawCoordinate)

(***************************************************************************)
(* C5: a GPU step on an available device that meets no platform fault and  *)
(* passes the size checks, dispatched with maxNeighbors below              *)
(* 9 x (number of changed cells), returns true,                            *)
(* sets neighborOverflow, yields the CPU's nextActive for the same input,  *)
(* and its nextPotential holds every active cell and the 3x3 block of      *)
(* every changed cell.                                                     *)
(***************************************************************************)
C5_OverflowDegrades ==
    [][ ( /\ lastOp' = "gpuStep" /\ ~crashed' /\ fault' = "none"
          /\ ctx'.deviceAvailable
          /\ gpuPotential # {}
          /\ Cardinality(gpuPotential) <= Uint32Max
          /\ 2 * Cardinality(gpuActive) <= kMaxTableEntries
          /\ MaxNeighborsOf(ctx') < 9 * Cardinality(ChangedCells(gpuActive, gpuPotential)) )
        => ( /\ retOk' /\ usedGPU'
             /\ timing'.neighborOverflow
             /\ nextActive' = cpuNext'.active
             /\ gpuActive \subseteq nextPotential'
             /\ \A c \in ChangedCells(gpuActive, gpuPotential) :
                    Square3x3(c) \subseteq nextPotential' ) ]_vars

\* two successful steps that both overflowed, with deaths and births, after
\* which the GPU run agrees with the CPU run
C5_Witness ==
    /\ lastOp = "gpuStep" /\ retOk /\ timing.neighborOverflow
    /\ nSteps = 2
    /\ origin = RowLive
    /\ gpuActive = active /\ gpuPotential = potential
    /\ nextActive = cpuNext.active /\ nextActive # {}
    /\ ChangedCells(origin, UNION { Square3x3(c) : c \in origin }) \subseteq nextPotential

(***************************************************************************)
(* C6: once device initialisation has failed, every GPU step returns false *)
(* with usedGPU false and a non-empty error message, and the CPU step on   *)
(* the same input yields the next generation.                              *)
(***************************************************************************)
C6_DeviceFailed ==
    lastOp = "gpuStep" /\ ctx.initFlag /\ ~ctx.deviceAvailable
        => /\ ~retOk /\ ~usedGPU /\ errorMessage # ""
           /\ cpuNext.active = ConwaySuccessor(gpuActive)

\* the third call of a session whose first call met the failed device
\* initialisation: it fails again, and the CPU step changes the pattern
C6_Witness ==
    /\ lastOp = "gpuStep" /\ nCalls = 3 /\ nFaults = 1 /\ fault = "none"
    /\ ctx.initFlag /\ ~ctx.deviceAvailable
    /\ ~retOk /\ errorMessage = "Metal GPU device unavailable"
    /\ cpuNext.active # gpuActive /\ cpuNext.active # {}

(***************************************************************************)
(* C7: a GPU step that returns false has usedGPU false, a non-empty error  *)
(* message, and leaves the caller's nextActive and nextPotential as they   *)
(* were before the call.                                                   *)
(***************************************************************************)
C7_FailureFrame ==
    [][ (lastOp' = "gpuStep" /\ ~crashed' /\ ~retOk')
        => ( /\ ~usedGPU' /\ errorMessage' # ""
             /\ nextActive' = nextActive
             /\ nextPotential' = nextPotential ) ]_vars

\* a failed step after a successful one: the caller's sets still hold the
\* generation the successful step wrote
C7_Witness ==
    /\ lastOp = "gpuStep" /\ ~retOk /\ ~crashed /\ nSteps = 1
    /\ errorMessage = "Command buffer execution failed"
    /\ nextActive = gpuActive /\ nextActive # {} /\ nextPotential # {}

(***************************************************************************)
(* C11: the CPU step commutes with translation: for an offset that keeps   *)
(* every cell of the state and its 3x3 neighbourhood inside the int32_t     *)
(* range, stepping the translated state gives the translation of the       *)
(* stepped state; a live cell with 2 live neighbours survives at the       *)
(* extreme and at the negative centre as it does at the origin.            *)
(***************************************************************************)
Int32Max == (2 ^ (UintBits - 1)) - 1
Int32Min == -(2 ^ (UintBits - 1))

\* INT32_MAX / 2 of test_edge_cases
ExtremeCentre == Int32Max \div 2

\* the offsets of test_edge_cases, and one that takes the seed grid to the
\* upper end of the range
TranslationOffsets ==
    { <<ExtremeCentre, ExtremeCentre>>, <<-100, -200>>, <<Int32Max - 3, Int32Min + 2>> }

\* every cell of S and of its 3x3 neighbourhood is a pair of int32_t values
FitsInt32(S) ==
    \A c \in S : /\ Int32Min < c[1] /\ c[1] < Int32Max
                 /\ Int32Min < c[2] /\ c[2] < Int32Max

C11_StepCommutesWithTranslation ==
    \A d \in TranslationOffsets :
        FitsInt32(Shift(active \cup potential, d[1], d[2])) =>
            LET stepped    == calculateNextGeneration(active, potential)
                translated == calculateNextGeneration(Shift(active, d[1], d[2]),
                                                      Shift(potential, d[1], d[2]))
            IN  /\ translated.active = Shift(stepped.active, d[1], d[2])
                /\ translated.potential = Shift(stepped.potential, d[1], d[2])

\* the horizontal row of three rebuilt after a step: its centre has 2 live
\* neighbours and survives at the origin, at the extreme centre and at the
\* negative centre, while the row ends die
C11_Witness ==
    /\ nSteps > 0 /\ lastOp = "addCell"
    /\ active = Blinker
    /\ <<1, 0>> \in calculateNextGeneration(active, potential).active
    /\ \A d \in { <<ExtremeCentre, ExtremeCentre>>, <<-100, -200>> } :
          /\ FitsInt32(Shift(active \cup potential, d[1], d[2]))
          /\ LET translated == calculateNextGeneration(Shift(active, d[1], d[2]),
                                                       Shift(potential, d[1], d[2]))
             IN  /\ <<1 + d[1], d[2]>> \in translated.active
                 /\ <<d[1], d[2]>> \notin translated.active
    /\ ~FitsInt32(Shift(active \cup potential, Int32Max - 3, Int32Min + 2))

(***************************************************************************)
(* C12: once the first device acquisition has failed, every later call of  *)
(* IsAvailable, IsEnabled or the GPU step leaves the device unacquired and  *)
(* the cached error in place, also when the platform would now hand out a   *)
(* device: IsAvailable and IsEnabled return false, and the GPU step fails   *)
(* with the cached error (a step over the dispatch limit is turned down     *)
(* with the dispatch-limit message before the device is looked at).        *)
(***************************************************************************)
DeviceFailed(c) == c.initFlag /\ ~c.deviceAvailable

C12_DeviceFailureCached ==
    [][ ( /\ DeviceFailed(ctx)
          /\ nCalls' = nCalls + 1
          /\ lastOp' \notin { "resetCaches", "setEnabled" } )
        => ( /\ DeviceFailed(ctx')
             /\ ctx'.initError = ctx.initError
             /\ ~ctx'.device /\ ~ctx'.queue /\ ~ctx'.pipeline
             /\ lastOp' \in { "init", "isAvailable", "isEnabled" } => ~queryResult'
             /\ lastOp' = "gpuStep" =>
                   /\ ~retOk' /\ ~usedGPU' /\ errorMessage' # ""
                   /\ Cardinality(gpuPotential) <= Uint32Max
                         => errorMessage' = ctx.initError ) ]_vars

\* the device was refused at the first call; two calls later, with GPU use
\* requested and nothing failing, IsEnabled still answers false
C12_Witness ==
    /\ lastOp = "isEnabled" /\ requested /\ ~queryResult
    /\ nCalls = 3 /\ nFaults = 1 /\ fault = "none"
    /\ DeviceFailed(ctx) /\ ctx.initError = "Metal GPU device unavailable"

(***************************************************************************)
(* C13: after a failed device acquisition, the first use that follows a     *)
(* ResetCaches (IsAvailable, IsEnabled with GPU use requested, or a GPU     *)
(* step within the size limits) acquires the device again when the         *)
(* platform now hands one out: the query returns true, the step runs on    *)
(* the GPU.                                                                *)
(***************************************************************************)
C13_ResetRetriesDevice ==
    [][ ( /\ DeviceFailed(ctx)
          /\ lastOp = "resetCaches"
          /\ nCalls' = nCalls + 1
          /\ fault' = "none" /\ ~crashed'
          /\ lastOp' \in { "isAvailable", "isEnabled", "gpuStep" } )
        => ( /\ lastOp' = "isAvailable" => queryResult' /\ ctx'.deviceAvailable
             /\ lastOp' = "isEnabled" /\ requested => queryResult' /\ ctx'.deviceAvailable
             /\ ( /\ lastOp' = "gpuStep"
                  /\ Cardinality(gpuPotential) <= Uint32Max
                  /\ 2 * Cardinality(gpuActive) <= kMaxTableEntries )
                   => retOk' /\ usedGPU' /\ ctx'.deviceAvailable ) ]_vars

(***************************************************************************)
(* C14: once a GPU step has failed because GameOfLife.metallib could not    *)
(* be located, every later GPU step (within the dispatch limit) fails with  *)
(* that same error, also when the file can be found by then.               *)
(***************************************************************************)
MetallibMissing == "Unable to locate GameOfLife.metallib"

C14_MetallibFailureCached ==
    [][ ( /\ ~retOk /\ errorMessage = MetallibMissing
          /\ lastOp' = "gpuStep" /\ nCalls' = nCalls + 1
          /\ Cardinality(gpuPotential) <= Uint32Max )
        => ( /\ ~retOk' /\ ~usedGPU'
             /\ errorMessage' = MetallibMissing
             /\ ~ctx'.library /\ ~ctx'.pipeline ) ]_vars

(***************************************************************************)
(* C15: after a GPU step that failed for a per-step reason (hash-table     *)
(* cap, full hash table, dispatch limit, a buffer allocation, the command  *)
(* buffer), the next GPU step whose input is within the limits and that    *)
(* meets no platform fault runs on the GPU: it returns true with           *)
(* usedGPU = true.                                                         *)
(***************************************************************************)
PerStepErrors ==
    { "Too many potential cells for GPU dispatch",
      "Active cell count is too large for GPU hash table",
      "Hash table is full",
      "Failed to allocate parameter buffer",
      "Failed to allocate hash table buffer",
      "Failed to allocate potential cell buffer",
      "Failed to allocate output buffer",
      "Failed to allocate neighbor buffer",
      "Failed to allocate neighbor count buffer",
      "Failed to create command buffer",
      "Failed to create compute command encoder",
      "Command buffer execution failed" }

C15_PerStepFailureTransient ==
    [][ ( /\ lastOp = "gpuStep" /\ ~retOk /\ ~crashed
          /\ errorMessage \in PerStepErrors
          /\ lastOp' = "gpuStep" /\ fault' = "none"
          /\ Cardinality(gpuPotential) <= Uint32Max
          /\ 2 * Cardinality(gpuActive) <= kMaxTableEntries )
        => ( retOk' /\ usedGPU' /\ ~crashed' ) ]_vars

(***************************************************************************)
(* C16: for a given (active, potential) input, a successful GPU step       *)
(* returns the same nextActive and nextPotential whatever the order in     *)
(* which the lanes ran and whatever the iteration order of the two input   *)
(* sets: the sets it returns are those of the run with both vectors in     *)
(* row order and the lanes in index order.                                 *)
(***************************************************************************)
\* the step on the same input with the vectors in row order and the lanes
\* in index order
InOrderStep(A, P, oob) ==
    CalculateNextGenerationGpu(NewContext, Ascending(A), Ascending(P), {}, {}, EnvAllOk,
                               Iota(Cardinality(P)), oob)

C16_OrderIndependent ==
    lastOp = "pair" /\ retOk =>
        /\ nextActive = InOrderStep(active, potential, pairOob).nextActive
        /\ nextPotential = InOrderStep(active, potential, pairOob).nextPotential

\* a successful step with several live cells in the hash table and several
\* changed potential cells whose blocks differ, so that the vectors and the
\* lanes have more than one order and the order decides which slots hold what
C16_Witness ==
    /\ lastOp = "pair" /\ retOk /\ usedGPU
    /\ Cardinality(active) >= 3
    /\ Cardinality(ChangedCells(active, potential)) >= 3
    /\ pairOob # <<0, 0>>
    /\ nextPotential # active

(***************************************************************************)
(* C17: after a GPU step call returns, gTimingStats describes that call:   *)
(* lastUsedGPU equals the usedGPU the call returned, neighborOverflow is   *)
(* true exactly when the call dispatched the kernel, read the counter back *)
(* and found it above maxNeighbors; nothing of an earlier call is left.    *)
(* GetTimingStats changes neither the record nor any other state.          *)
(***************************************************************************)
\* the value of the kernel's atomic counter after a dispatch over (A, P)
FinalCounter(A, P) == ToUint32(9 * Cardinality(ChangedCells(A, P)))

C17_DiagnosticsDescribeLastCall ==
    [][ /\ ( lastOp' = "gpuStep" /\ nCalls' = nCalls + 1 /\ ~crashed' )
            => /\ timing'.lastUsedGPU = usedGPU'
               /\ timing'.neighborOverflow
                    = ( /\ retOk' /\ gpuPotential # {}
                        /\ FinalCounter(gpuActive, gpuPotential) > MaxNeighborsOf(ctx') )
        /\ lastOp' = "getTimingStats"
            => /\ timing' = timing
               /\ UNCHANGED <<active, potential, gpuActive, gpuPotential, nextActive,
                              nextPotential, retOk, usedGPU, errorMessage, ctx, crashed>>
      ]_vars

\* the record read after the second call of a session: the first step ran on
\* the GPU and overflowed, the second failed on the command buffer, and the
\* record shows neither flag
C17_Witness ==
    /\ lastOp = "getTimingStats" /\ nCalls = 3
    /\ origin = RowLive /\ nSteps = 1
    /\ ~retOk /\ ~usedGPU /\ errorMessage = "Command buffer execution failed"
    /\ ~timing.lastUsedGPU /\ ~timing.neighborOverflow
    /\ FinalCounter(gpuActive, gpuPotential) > MaxNeighborsOf(ctx)

(***************************************************************************)
(* C18: after a CPU step, next.potential is exactly current.active united  *)
(* with the 3x3 block (the cell and its 8 neighbours) of every potential   *)
(* cell whose state changes; what next held before the call is gone.       *)
(***************************************************************************)
C18_CpuNextPotentialExact ==
    [][ lastOp' = "step" =>
          /\ cpuNext'.potential
               = active \cup UNION { Square3x3(c) : c \in ChangedCells(active, potential) }
          /\ potential' = cpuNext'.potential ]_vars

\* a third step into a GameState next that held an earlier generation: a
\* cell died and its whole 3x3 block is in next.potential, which reaches
\* beyond the neighbourhood of the cells now alive
C18_Witness ==
    /\ lastOp = "step" /\ nSteps = 3
    /\ cpuNext.potential = potential
    /\ active # {}
    /\ potential \ Reach(active) # {}
    /\ \E c \in potential : c \notin active /\ Square3x3(c) \subseteq potential

(***************************************************************************)
(* C19: in every state reachable from the empty GameState by addCell,      *)
(* removeCell, clear and calculateNextGeneration, every active cell is in  *)
(* potential, and so is every cell whose state in Conway's next generation *)
(* differs from its current state.                                         *)
(***************************************************************************)
C19_PotentialCoversChanges ==
    /\ active \subseteq potential
    /\ \A c \in Reach(active) : ((c \in active) # ConwayAlive(active, c)) => c \in potential

(***************************************************************************)
(* C20: in a dispatch whose reservations all stay within maxNeighbors,     *)
(* every potential cell whose state changed owns one block of 9 slots of   *)
(* the neighbour buffer, and the block holds the 9 distinct coordinates of *)
(* the cell's 3x3 neighbourhood, the cell itself among them; a cell whose   *)
(* state did not change owns no block.                                     *)
(***************************************************************************)
\* the coordinates in the block of 9 slots that starts at slot 9 * j
BlockCells(neighborCells, j) == { neighborCells[9 * j + i] : i \in 1 .. 9 }

C20_KernelBlockContents ==
    lastOp = "pair" /\ retOk =>
        /\ Len(pairNeighborCells) = 9 * Cardinality(ChangedCells(active, potential))
        /\ \A c \in ChangedCells(active, potential) :
              \E j \in 0 .. (Len(pairNeighborCells) \div 9) - 1 :
                  BlockCells(pairNeighborCells, j) = Square3x3(c)

(***************************************************************************)
(* One GPU step lane by lane: the host uploads, every lane of life_step    *)
(* runs as a process of its own, the host downloads and decodes. The       *)
(* buffers may be those a larger, earlier step left behind.                *)
(***************************************************************************)
LaneActive == { <<-1, 0>>, <<0, 0>>, <<1, 0>> }
LanePotential == { <<-1, 0>>, <<0, 0>>, <<1, 0>>, <<0, -1>>, <<0, 1>> }

\* potential-cell counts of the largest earlier step (0: no earlier step);
\* nine slots per potential cell of the larger ones exceed the 32-bit range
EarlierPotentialCounts == { 0, (U32Range \div 9) + 2, (U32Range \div 9) + 3 }

\* the context a successful step on tableEntries / potentialEntries leaves
UsedContext(tableEntries, potentialEntries) ==
    IF potentialEntries = 0 THEN NewContext
    ELSE EnsureBuffers(EnsurePipeline(NewContext, EnvAllOk, "").ctx,
                       tableEntries, potentialEntries, EnvAllOk, "").ctx

InitLanes ==
    /\ active \in SUBSET LaneActive
    /\ potential \in SUBSET LanePotential
    /\ ctx \in { UsedContext(2, m) : m \in EarlierPotentialCounts }
    /\ origin = {}
    /\ nAdds = 0
    /\ nSteps = 0
    /\ nRemoves = 0
    /\ lastOp = "init"
    /\ cpuNext = [ active |-> {}, potential |-> {} ]
    /\ gpuActive = {}
    /\ gpuPotential = {}
    /\ nextActive = {}
    /\ nextPotential = {}
    /\ retOk = FALSE
    /\ usedGPU = FALSE
    /\ errorMessage = ""
    /\ timing = NewTimingStats
    /\ crashed = FALSE
    /\ fault = "none"
    /\ nFaults = 0
    /\ nCalls = 0
    /\ requested = FALSE
    /\ queryResult = FALSE
    /\ pairOob = <<0, 0>>
    /\ pairNeighborCells = << >>
    /\ kernel = KernelIdle
    /\ lastRaw = NoRaw
    /\ app = NewApp

\* outputBuffer after the memset of line 431
ZeroCellState == [ x |-> 0, y |-> 0, wasAlive |-> 0, willBeAlive |-> 0 ]

\* A plausible slip: the counter advances by the number of offsets in the table.
atomic_fetch_add_explicit_eight(counter, n) ==
    [ old |-> counter, new |-> ToUint32(counter + 8) ]

\* atomic_fetch_add_explicit on the 32-bit counter: one indivisible step
atomic_fetch_add_explicit(counter, n) ==
    [ old |-> counter, new |-> ToUint32(counter + n) ]

\* CalculateNextGenerationRaw up to the commit of the command buffer (lines
\* 375-470); a call that returns before the dispatch is complete at once
RawUpload ==
    /\ lastOp = "init" /\ kernel.phase = "idle"
    /\ \E dir \in SetOrders, oob \in OobOffsets :
       \E aVec \in { VecIn(active, dir) }, pVec \in { VecIn(potential, dir) } :
       \E whole \in { CalculateNextGenerationRaw(ctx, aVec, pVec, EnvAllOk,
                                                 Iota(Len(pVec)), oob) } :
          IF whole.ok /\ Len(pVec) > 0
          THEN \E size \in { NextPowerOfTwo(Max(1, Len(aVec) * 2)) } :
               \E h \in { PopulateHashTable(aVec, NewTable(size)) } :
                  /\ kernel' = [ phase |-> "running", table |-> h.table,
                                 potentialCells |-> pVec,
                                 params |-> [ tableSize |-> ToUint32(size),
                                              potentialCount |-> ToUint32(Len(pVec)),
                                              hashMask |-> ToUint32(size - 1),
                                              maxNeighbors |-> MaxNeighborsOf(whole.ctx) ],
                                 results |-> [ g \in 1 .. Len(pVec) |-> ZeroCellState ],
                                 counter |-> 0,
                                 pc |-> [ g \in 1 .. Len(pVec) |-> "start" ],
                                 base |-> [ g \in 1 .. Len(pVec) |-> 0 ],
                                 writes |-> {}, oob |-> oob ]
                  /\ ctx' = whole.ctx
                  /\ lastRaw' = [ NoRaw EXCEPT !.currentActive = aVec, !.potentialCells = pVec,
                                               !.oob = oob ]
                  /\ lastOp' = "upload"
                  /\ UNCHANGED <<nextActive, nextPotential, retOk, usedGPU, errorMessage,
                                 timing, pairNeighborCells>>
          ELSE \E g \in { DecodeCellStates(whole, active, nextActive, nextPotential) } :
                  /\ nextActive' = g.nextActive
                  /\ nextPotential' = g.nextPotential
                  /\ retOk' = g.ok
                  /\ usedGPU' = g.usedGPU
                  /\ errorMessage' = g.error
                  /\ ctx' = g.ctx
                  /\ timing' = g.timing
                  /\ pairNeighborCells' = whole.neighborOutputs
                  /\ lastRaw' = [ NoRaw EXCEPT !.currentActive = aVec, !.potentialCells = pVec,
                                               !.oob = oob, !.ok = whole.ok ]
                  /\ lastOp' = "download"
                  /\ UNCHANGED kernel
    /\ UNCHANGED <<cpuVars, cpuNext, gpuActive, gpuPotential, crashed, fault, nFaults, nCalls,
                   requested, queryResult, pairOob, app>>

\* life_step up to and including the atomic fetch-add (lines 352-379) in
\* lane gid: the lane classifies its cell, stores the CellState and, when
\* the classification changed, reserves nine slots
life_step_reserve(gid) ==
    /\ kernel.phase = "running" /\ kernel.pc[gid] = "start"
    /\ \E state \in { LaneState(kernel.potentialCells[gid], kernel.table,
                                kernel.params.hashMask) } :
       \E f \in { atomic_fetch_add_explicit(kernel.counter, 9) } :
          kernel' = IF (state.wasAlive # 0) # (state.willBeAlive # 0)
                    THEN [ kernel EXCEPT !.results[gid] = state, !.counter = f.new,
                                         !.base[gid] = f.old, !.pc[gid] = "write" ]
                    ELSE [ kernel EXCEPT !.results[gid] = state, !.pc[gid] = "done" ]
    /\ lastOp' = "lane"
    /\ UNCHANGED <<cpuVars, cpuNext, gpuActive, gpuPotential, nextActive, nextPotential, retOk,
                   usedGPU, errorMessage, ctx, timing, crashed, fault, nFaults, nCalls,
                   requested, queryResult, pairOob, pairNeighborCells, lastRaw, app>>

\* life_step after the fetch-add (lines 380-385) in lane gid: the block is
\* written when it fits; each write is recorded with the lane that made it
life_step_write(gid) ==
    /\ kernel.phase = "running" /\ kernel.pc[gid] = "write"
    /\ kernel' = [ kernel EXCEPT
                     !.writes = @ \cup { << w[1], w[2], gid >> :
                                          w \in LaneBlock(kernel.potentialCells[gid],
                                                          kernel.base[gid],
                                                          kernel.params.maxNeighbors,
                                                          kernel.oob) },
                     !.pc[gid] = "done" ]
    /\ lastOp' = "lane"
    /\ UNCHANGED <<cpuVars, cpuNext, gpuActive, gpuPotential, nextActive, nextPotential, retOk,
                   usedGPU, errorMessage, ctx, timing, crashed, fault, nFaults, nCalls,
                   requested, queryResult, pairOob, pairNeighborCells, lastRaw, app>>

LanesDone == kernel.phase = "running" /\ \A g \in DOMAIN kernel.pc : kernel.pc[g] = "done"

\* CalculateNextGenerationRaw after waitUntilCompleted (lines 472-505) and
\* the decoder of gol::gpu::CalculateNextGeneration
RawDownload ==
    /\ LanesDone
    /\ \E rawNeighborCount \in { kernel.counter },
          maxNeighbors \in { MaxNeighborsOf(ctx) } :
       \E neighborCount \in { Min(rawNeighborCount, maxNeighbors) } :
       \E raw \in { [ ok |-> TRUE, usedGPU |-> TRUE, error |-> "",
                      results |-> kernel.results,
                      neighborOutputs |->
                          [ k \in 1 .. neighborCount |->
                              IF \E w \in kernel.writes : w[1] = k - 1
                              THEN (CHOOSE w \in kernel.writes : w[1] = k - 1)[2]
                              ELSE StaleCell ],
                      ctx |-> ctx,
                      timing |-> [ lastUsedGPU |-> TRUE,
                                   neighborOverflow |-> rawNeighborCount > maxNeighbors ],
                      crashed |-> FALSE ] } :
       \E g \in { DecodeCellStates(raw, active, nextActive, nextPotential) } :
          /\ nextActive' = g.nextActive
          /\ nextPotential' = g.nextPotential
          /\ retOk' = g.ok
          /\ usedGPU' = g.usedGPU
          /\ errorMessage' = g.error
          /\ timing' = g.timing
          /\ pairNeighborCells' = raw.neighborOutputs
          /\ lastRaw' = [ lastRaw EXCEPT !.ok = TRUE, !.results = raw.results,
                                         !.neighborOutputs = raw.neighborOutputs ]
    /\ kernel' = [ kernel EXCEPT !.phase = "done" ]
    /\ lastOp' = "download"
    /\ UNCHANGED <<cpuVars, cpuNext, gpuActive, gpuPotential, ctx, crashed, fault, nFaults,
                   nCalls, requested, queryResult, pairOob, app>>

NextLanes ==
    \/ RawUpload
    \/ \E gid \in DOMAIN kernel.pc : life_step_reserve(gid)
    \/ \E gid \in DOMAIN kernel.pc : life_step_write(gid)
    \/ RawDownload

SpecLanes == InitLanes /\ [][NextLanes]_vars

\* the lanes of the dispatch in `k` whose classification changed
ChangedLanesOf(k) ==
    { g \in DOMAIN k.results : (k.results[g].wasAlive # 0) # (k.results[g].willBeAlive # 0) }

\* the changed lanes that wrote no slot
SkippedLanes(k) == { g \in ChangedLanesOf(k) : ~ \E w \in k.writes : w[3] = g }

\* C21: in every interleaving of the lanes, a lane's step advances the shared
\* counter by 9 when it is the fetch-add of a potential cell whose
\* classification changed (whether or not its block is then written) and by
\* 0 otherwise; the value the host reads after the dispatch is 9 x (number
\* of changed cells), and it exceeds maxNeighbors exactly when at least one
\* lane skipped its write.
C21_CounterCountsChangedLanes ==
    [][ /\ \A gid \in DOMAIN kernel.pc :
              (kernel'.phase = "running" /\ kernel'.pc[gid] # kernel.pc[gid])
              => kernel'.counter - kernel.counter
                   = IF /\ kernel.pc[gid] = "start"
                        /\ kernel.potentialCells[gid] \in ChangedCells(active, potential)
                     THEN 9 ELSE 0
        /\ (kernel.phase = "running" /\ kernel'.phase = "done")
           => /\ kernel'.counter = 9 * Cardinality(ChangedCells(active, potential))
              /\ (kernel'.counter > kernel'.params.maxNeighbors)
                    <=> (SkippedLanes(kernel') # {})
              /\ timing'.neighborOverflow <=> (SkippedLanes(kernel') # {})
              /\ Len(pairNeighborCells')
                    = Min(9 * Cardinality(ChangedCells(active, potential)),
                          kernel'.params.maxNeighbors) ]_vars

\* C21 witness: a dispatch is over in which one changed lane wrote its block
\* and another changed lane, for lack of capacity, did not.
C21_Witness ==
    /\ kernel.phase = "done"
    /\ SkippedLanes(kernel) # {}
    /\ ChangedLanesOf(kernel) \ SkippedLanes(kernel) # {}

\* the lanes that have got a base from the fetch-add
ReservedLanes(k) == { g \in DOMAIN k.pc : k.pc[g] = "write" \/ g \in ChangedLanesOf(k) }

\* C22: in every interleaving of the lanes, the blocks base .. base+8 that
\* the lanes reserved so far tile the slots 0 .. 9 x (lanes reserved) - 1
\* without a gap or an overlap, every write of a lane lies in its own block,
\* no slot of the overflow buffer is written by two lanes, and no write has
\* an index at or above maxNeighbors.
C22_BlocksDisjointAndInRange ==
    kernel.phase \in { "running", "done" } =>
        LET lanes == ReservedLanes(kernel)
        IN  /\ { kernel.base[g] : g \in lanes } = { 9 * j : j \in 0 .. Cardinality(lanes) - 1 }
            /\ \A g, h \in lanes : g # h => kernel.base[g] # kernel.base[h]
            /\ kernel.counter = 9 * Cardinality(lanes)
            /\ \A w \in kernel.writes :
                  /\ w[1] >= kernel.base[w[3]] /\ w[1] <= kernel.base[w[3]] + 8
                  /\ w[1] < kernel.params.maxNeighbors
            /\ \A w, v \in kernel.writes : w[1] = v[1] => w[3] = v[3]

\* C22 witness: a dispatch is over in which two lanes wrote their blocks and
\* a third lane's block, reserved behind them, did not fit.
C22_Witness ==
    /\ kernel.phase = "done"
    /\ Cardinality(ChangedLanesOf(kernel) \ SkippedLanes(kernel)) = 2
    /\ \E g \in SkippedLanes(kernel) : kernel.base[g] = 18

\* C23: after a dispatch, the decoder takes the neighbourhoods from the list
\* read back exactly when no lane skipped its write, and then every entry of
\* the list is a slot some lane wrote; when a lane skipped its write the list
\* is shorter than 9 x changedCount and nextPotential is the active set plus
\* the 3x3 neighbourhoods of the changed cells of the result array; a slot no
\* lane wrote never reaches nextPotential.
C23_DecoderDiscardsIncompleteList ==
    (lastOp = "download" /\ kernel.phase = "done") =>
        LET changed == ChangedLanesOf(kernel)
            list    == pairNeighborCells
            fast    == Len(list) >= 9 * Cardinality(changed)
        IN  /\ fast <=> (SkippedLanes(kernel) = {})
            /\ fast => /\ \A k \in 1 .. Len(list) :
                             \E w \in kernel.writes : w[1] = k - 1 /\ w[2] = list[k]
                       /\ \A g \in changed :
                             Cardinality({ w \in kernel.writes : w[3] = g }) = 9
                       /\ nextPotential = active \cup { list[k] : k \in 1 .. Len(list) }
            /\ ~fast => nextPotential
                          = active \cup UNION { Square3x3(kernel.potentialCells[g]) : g \in changed }
            /\ StaleCell \notin nextPotential

\* C23 witness: the list read back was cut at maxNeighbors behind a complete
\* block and ends in slots that no lane wrote.
C23_Witness ==
    /\ lastOp = "download" /\ kernel.phase = "done"
    /\ Len(pairNeighborCells) > 9
    /\ pairNeighborCells[Len(pairNeighborCells)] = StaleCell
    /\ nextPotential # {}

(***************************************************************************)
(* The encoder and the probe on larger active sets: the same step, lane by *)
(* lane, on active sets that collide in the table, hold negative           *)
(* coordinates and grow past the table cap.                                *)
(***************************************************************************)
\* cells whose keys share low bits, cells with negative coordinates
CollidingCells == { <<0, 0>>, <<0, 1>>, <<0, -1>>, <<-1, 0>>, <<-1, -1>>, <<kMaxTableEntries, 0>> }
Filler(n) == { <<x, 5>> : x \in 1 .. n }

EncoderActiveSets ==
    (SUBSET CollidingCells)
    \cup { CollidingCells \cup Filler(n) :
             n \in 1 .. (OverCapRowLen + 1) - Cardinality(CollidingCells) }

EncoderPotentialSets == { {}, { <<0, 0>> }, { <<-1, 0>>, <<kMaxTableEntries, 0>> } }

InitEncoder ==
    /\ active \in EncoderActiveSets
    /\ potential \in EncoderPotentialSets
    /\ ctx = NewContext
    /\ origin = {}
    /\ nAdds = 0
    /\ nSteps = 0
    /\ nRemoves = 0
    /\ lastOp = "init"
    /\ cpuNext = [ active |-> {}, potential |-> {} ]
    /\ gpuActive = {}
    /\ gpuPotential = {}
    /\ nextActive = {}
    /\ nextPotential = {}
    /\ retOk = FALSE
    /\ usedGPU = FALSE
    /\ errorMessage = ""
    /\ timing = NewTimingStats
    /\ crashed = FALSE
    /\ fault = "none"
    /\ nFaults = 0
    /\ nCalls = 0
    /\ requested = FALSE
    /\ queryResult = FALSE
    /\ pairOob = <<0, 0>>
    /\ pairNeighborCells = << >>
    /\ kernel = KernelIdle
    /\ lastRaw = NoRaw
    /\ app = NewApp

SpecEncoder == InitEncoder /\ [][NextLanes]_vars

\* the smallest power of two that is at least v
SmallestPowerOfTwoAtLeast(v) ==
    LET powers == { 2 ^ k : k \in 0 .. 2 * UintBits }
    IN  CHOOSE p \in powers : p >= v /\ \A q \in powers : q >= v => p <= q

OccupiedSlots(table) == { i \in DOMAIN table : table[i].occupied # 0 }

\* C24: a step that reaches the encoder (non-empty potential set, pipeline
\* ready) sizes the table to the smallest power of two that is at least
\* 2 x |active| (1 for an empty active set); when that size exceeds
\* kMaxTableEntries the step fails with the hash-table error and nothing is
\* dispatched; otherwise the table uploaded has that many slots, at most half
\* of them occupied, and the step does not report a full table.
C24_TableSizedToTwiceActive ==
    (lastOp # "init" /\ potential # {}) =>
        LET size == SmallestPowerOfTwoAtLeast(Max(1, 2 * Cardinality(active)))
        IN  IF size > kMaxTableEntries
            THEN /\ lastOp = "download" /\ ~retOk /\ kernel.phase = "idle"
                 /\ errorMessage = "Active cell count is too large for GPU hash table"
            ELSE /\ kernel.phase \in { "running", "done" }
                 /\ DOMAIN kernel.table = 0 .. size - 1
                 /\ kernel.params.tableSize = size
                 /\ kernel.params.hashMask = size - 1
                 /\ 2 * Cardinality(OccupiedSlots(kernel.table)) <= size
                 /\ errorMessage # "Hash table is full"
                 /\ ctx.tableCapacityBytes = size * SizeofHashEntry

\* C24 witness: a table of kMaxTableEntries slots, the largest allowed, was
\* uploaded exactly half full.
C24_Witness ==
    /\ kernel.phase = "done"
    /\ kernel.params.tableSize = kMaxTableEntries
    /\ 2 * Cardinality(OccupiedSlots(kernel.table)) = kMaxTableEntries

\* the coordinates probed: negative ones, ones beyond the table length, the
\* corners of the plane
ProbeWindow ==
    { <<x, y>> : x \in -3 .. kMaxTableEntries + 1, y \in -2 .. 5 }
    \cup { <<Int32Min, 0>>, <<Int32Max, Int32Min>>, <<-1, Int32Max>> }

\* C25: once the encoder has filled the table of a step, its occupied entries
\* are the active coordinates, one entry each, and for every coordinate of
\* the window (negative coordinates and coordinates that share a home slot
\* included) the kernel's probe reads at most tableSize entries and answers
\* true exactly for the active coordinates.
C25_ProbeAnswersMembership ==
    kernel.phase \in { "running", "done" } =>
        LET table == kernel.table
            mask  == kernel.params.hashMask
            home(c) == ToUint32(BitAnd(PackKey(c[1], c[2]), mask))
        IN  /\ { << table[i].x, table[i].y >> : i \in OccupiedSlots(table) } = active
            /\ Cardinality(OccupiedSlots(table)) = Cardinality(active)
            /\ \A c \in ProbeWindow \cup active :
                  /\ is_alive(c, table, mask) <=> c \in active
                  /\ ProbeLength(c, table, mask, home(c), home(c)) <= kernel.params.tableSize

\* C25 witness: a table holds an active cell with a negative coordinate away
\* from its home slot, behind cells that collided with it.
C25_Witness ==
    /\ kernel.phase = "done"
    /\ \E c \in active :
          /\ c[1] < 0
          /\ LET home == ToUint32(BitAnd(PackKey(c[1], c[2]), kernel.params.hashMask))
             IN  ProbeLength(c, kernel.table, kernel.params.hashMask, home, home) >= 2

(***************************************************************************)
(* The buffer cache over a session: GPU steps on inputs of differing sizes,*)
(* allocation and pipeline failures, ResetCaches.                          *)
(***************************************************************************)
BufferInputs ==
    { [ active |-> {}, potential |-> {} ],
      [ active |-> { <<0, 0>> }, potential |-> { <<0, 0>> } ],
      [ active |-> Blinker, potential |-> Blinker \cup { <<1, 0>>, <<1, 2>> } ],
      [ active |-> { <<0, 0>>, <<4, 4>> }, potential |-> Square3x3(<<0, 0>>) ] }

\* the platform requests that create the cached resources
BufferFaults ==
    { "pipelineState", "paramAlloc", "tableAlloc", "potentialAlloc", "outputAlloc",
      "neighborAlloc", "countAlloc" }

\* the four growable buffers: handle and recorded capacity
GrowableBuffers ==
    { [ handle |-> "tableBuffer", capacity |-> "tableCapacityBytes" ],
      [ handle |-> "potentialBuffer", capacity |-> "potentialCapacityBytes" ],
      [ handle |-> "outputBuffer", capacity |-> "outputCapacityBytes" ],
      [ handle |-> "neighborBuffer", capacity |-> "neighborCapacityBytes" ] }

\* the byte sizes EnsureBuffers computes for a step on (A, P)
RequiredBytes(A, P) ==
    LET tableEntries == NextPowerOfTwo(Max(1, Cardinality(A) * 2))
        potentialEntries == Cardinality(P)
    IN  [ tableBuffer     |-> Max(tableEntries, 1) * SizeofHashEntry,
          potentialBuffer |-> Max(potentialEntries, 1) * SizeofRawCoordinate,
          outputBuffer    |-> Max(potentialEntries, 1) * SizeofCellState,
          neighborBuffer  |-> (Max(potentialEntries, 1) * 9) * SizeofRawCoordinate ]

\* gol::gpu::CalculateNextGeneration on an input of the caller's choice
BufferStep ==
    /\ ~crashed /\ nCalls < MaxCalls
    /\ \E input \in BufferInputs, env \in EnvsNow(BufferFaults), oob \in OobOffsets :
       \E aVec \in { Ascending(input.active) }, pVec \in { Ascending(input.potential) } :
       \E laneOrder \in { Iota(Len(pVec)) } :
       \E raw \in { CalculateNextGenerationRaw(ctx, aVec, pVec, env, laneOrder, oob) } :
       \E g \in { DecodeCellStates(raw, input.active, nextActive, nextPotential) } :
          /\ active' = input.active
          /\ potential' = input.potential
          /\ nextActive' = g.nextActive
          /\ nextPotential' = g.nextPotential
          /\ retOk' = g.ok
          /\ usedGPU' = g.usedGPU
          /\ errorMessage' = g.error
          /\ ctx' = g.ctx
          /\ timing' = g.timing
          /\ crashed' = g.crashed
          /\ fault' = FaultOf(env)
          /\ nFaults' = IF env = EnvAllOk THEN nFaults ELSE nFaults + 1
          /\ pairOob' = oob
          /\ pairNeighborCells' = raw.neighborOutputs
          /\ lastRaw' = [ currentActive |-> aVec, potentialCells |-> pVec,
                          laneOrder |-> laneOrder, oob |-> oob, ok |-> raw.ok,
                          results |-> raw.results, neighborOutputs |-> raw.neighborOutputs ]
    /\ nCalls' = nCalls + 1
    /\ lastOp' = "bufferStep"
    /\ UNCHANGED <<origin, nAdds, nSteps, nRemoves, cpuNext, gpuActive, gpuPotential, requested,
                   queryResult, kernel, app>>

NextBuffers == BufferStep \/ ResetCaches

SpecBuffers == Init /\ [][NextBuffers]_vars

\* C26: in every step of a session that is not a ResetCaches, no recorded
\* capacity of the four growable buffers decreases; a handle or a capacity
\* changes only when the size the step requires exceeds the capacity recorded
\* before it; and after a successful step that had cells to dispatch every
\* capacity is at least the size the step required.
C26_CapacitiesGrowOnDemand ==
    [][ lastOp' = "bufferStep" =>
          LET required == RequiredBytes(active', potential')
          IN  \A b \in GrowableBuffers :
                 /\ ctx'[b.capacity] >= ctx[b.capacity]
                 /\ (ctx'[b.handle] # ctx[b.handle] \/ ctx'[b.capacity] # ctx[b.capacity])
                    => (potential' # {} /\ required[b.handle] > ctx[b.capacity])
                 /\ (retOk' /\ potential' # {}) => ctx'[b.capacity] >= required[b.handle] ]_vars

\* C26 witness: a successful step ran in buffers larger than it required,
\* kept from an earlier step.
C26_Witness ==
    /\ lastOp = "bufferStep" /\ retOk /\ potential # {}
    /\ \A b \in GrowableBuffers :
          /\ ctx[b.capacity] > RequiredBytes(active, potential)[b.handle]
          /\ ctx[b.handle] = ctx[b.capacity]

(***************************************************************************)
(* The interactive application SparseEncodedGOL, frame by frame, and a     *)
(* GameState driven through GameLogic by the same inputs.                  *)
(***************************************************************************)
\* the eight getCellState terms of nNeighbours (lines 85-93)
nNeighbours(currentActive, c) ==
    (IF <<c[1] - 1, c[2] - 1>> \in currentActive THEN 1 ELSE 0)
    + (IF <<c[1] - 0, c[2] - 1>> \in currentActive THEN 1 ELSE 0)
    + (IF <<c[1] + 1, c[2] - 1>> \in currentActive THEN 1 ELSE 0)
    + (IF <<c[1] - 1, c[2] + 0>> \in currentActive THEN 1 ELSE 0)
    + (IF <<c[1] + 1, c[2] + 0>> \in currentActive THEN 1 ELSE 0)
    + (IF <<c[1] - 1, c[2] + 1>> \in currentActive THEN 1 ELSE 0)
    + (IF <<c[1] + 0, c[2] + 1>> \in currentActive THEN 1 ELSE 0)
    + (IF <<c[1] + 1, c[2] + 1>> \in currentActive THEN 1 ELSE 0)

\* A plausible slip: a change stimulates the eight neighbours, not the cell.
SparseEncodedGOL_CalculateNextGenerationEight(currentActive, potentialCells, nextActiveIn, nextPotentialIn) ==
    LET killed  == { c \in potentialCells :
                       c \in currentActive /\ nNeighbours(currentActive, c) \notin { 2, 3 } }
        kept    == { c \in potentialCells :
                       c \in currentActive /\ nNeighbours(currentActive, c) \in { 2, 3 } }
        spawned == { c \in potentialCells :
                       c \notin currentActive /\ nNeighbours(currentActive, c) = 3 }
    IN  [ nextActive    |-> nextActiveIn \cup kept \cup spawned,
          nextPotential |-> nextPotentialIn
                            \cup UNION { Square3x3(c) \ { c } : c \in killed \cup spawned } ]

\* SparseEncodedGOL::CalculateNextGeneration: nextActive and nextPotential
\* after the loop has inserted into them
SparseEncodedGOL_CalculateNextGeneration(currentActive, potentialCells, nextActiveIn, nextPotentialIn) ==
    LET killed  == { c \in potentialCells :
                       c \in currentActive /\ nNeighbours(currentActive, c) \notin { 2, 3 } }
        kept    == { c \in potentialCells :
                       c \in currentActive /\ nNeighbours(currentActive, c) \in { 2, 3 } }
        spawned == { c \in potentialCells :
                       c \notin currentActive /\ nNeighbours(currentActive, c) = 3 }
    IN  [ nextActive    |-> nextActiveIn \cup kept \cup spawned,
          nextPotential |-> nextPotentialIn
                            \cup UNION { Square3x3(c) : c \in killed \cup spawned } ]

\* SparseEncodedGOL::AddCell
SparseEncodedGOL_AddCell(a, cell) ==
    [ a EXCEPT !.setActiveNext = @ \cup { cell },
               !.setActive = @ \cup { cell },
               !.setPotentialNext = @ \cup { <<cell[1] + x, cell[2] + y>> :
                                               x \in -1 .. 1, y \in -1 .. 1 } ]

\* the simulation block of OnUserUpdate (lines 174-188)
SimulationBlock(a) ==
    LET setActive    == a.setActiveNext
        setPotential == a.setPotentialNext
        computed     == SparseEncodedGOL_CalculateNextGeneration(setActive, setPotential,
                                                                 {}, setActive)
    IN  [ a EXCEPT !.setActive = setActive, !.setPotential = setPotential,
                   !.setActiveNext = computed.nextActive,
                   !.setPotentialNext = computed.nextPotential ]

\* what a frame may draw with nBrushSize = 1: nothing, or one cell
DrawChoices == { {} } \cup { { c } : c \in Grid }

RECURSIVE AddCells(_, _)
AddCells(a, cells) ==
    IF cells = {} THEN a
    ELSE LET c == CHOOSE c \in cells : TRUE
         IN  AddCells(SparseEncodedGOL_AddCell(a, c), cells \ { c })

\* SparseEncodedGOL::OnUserUpdate for one frame: SPACE toggles the
\* simulation, a running simulation steps, the mouse draws, C clears a paused
\* simulation. The GameState (active, potential) receives the same inputs
\* through GameLogic::calculateNextGeneration, addCell and clear.
OnUserUpdate ==
    \E space \in BOOLEAN, drawn \in DrawChoices, keyC \in BOOLEAN :
    \E running \in { IF space THEN ~app.bSimulationRunning ELSE app.bSimulationRunning } :
       /\ running => nSteps < MaxSteps
       /\ nAdds + Cardinality(drawn) <= MaxAdds
       /\ (~running /\ keyC) => nRemoves < MaxRemoves
       /\ \E a1 \in { [ app EXCEPT !.bSimulationRunning = running ] } :
          \E a2 \in { IF running THEN SimulationBlock(a1) ELSE a1 } :
          \E a3 \in { AddCells(a2, drawn) } :
          \E ref1 \in { IF running
                        THEN calculateNextGenerationInto(active, potential, cpuNext)
                        ELSE [ active |-> active, potential |-> potential ] } :
          \E ref2 \in { [ active    |-> ref1.active \cup drawn,
                          potential |-> ref1.potential
                                        \cup UNION { addCellPotential(c) : c \in drawn } ] } :
             /\ app' = IF ~running /\ keyC
                       THEN [ a3 EXCEPT !.setActive = {}, !.setActiveNext = {},
                                        !.setPotential = {}, !.setPotentialNext = {} ]
                       ELSE a3
             /\ active' = IF ~running /\ keyC THEN {} ELSE ref2.active
             /\ potential' = IF ~running /\ keyC THEN {} ELSE ref2.potential
             /\ cpuNext' = IF running THEN ref1 ELSE cpuNext
       /\ nSteps' = IF running THEN nSteps + 1 ELSE nSteps
       /\ nAdds' = nAdds + Cardinality(drawn)
       /\ nRemoves' = IF ~running /\ keyC THEN nRemoves + 1 ELSE nRemoves
       /\ lastOp' = IF running THEN "frameStep" ELSE "frame"
       /\ UNCHANGED <<origin, gpuActive, gpuPotential, nextActive, nextPotential, retOk, usedGPU,
                      errorMessage, ctx, timing, crashed, fault, nFaults, nCalls, requested,
                      queryResult, pairOob, pairNeighborCells, kernel, lastRaw>>

NextApp == OnUserUpdate

SpecApp == Init /\ [][NextApp]_vars

\* C27: in every frame in which the simulation runs, the sets the
\* application's step leaves in setActiveNext / setPotentialNext (before the
\* frame's drawing) are the sets GameLogic::calculateNextGeneration computes
\* from the application's setActive / setPotential of that frame; and through
\* any sequence of frames that step, draw and clear, setActiveNext and
\* setPotentialNext equal the active and potential sets of a GameState that
\* received the same steps, addCell calls and clears.
C27_AppStepRefinesGameLogic ==
    [][ /\ app'.setActiveNext = active'
        /\ app'.setPotentialNext = potential'
        /\ app'.bSimulationRunning
           => LET stepped == SimulationBlock(app)
                  logic   == calculateNextGeneration(stepped.setActive, stepped.setPotential)
              IN  /\ stepped.setActive = app.setActiveNext
                  /\ stepped.setPotential = app.setPotentialNext
                  /\ stepped.setActiveNext = logic.active
                  /\ stepped.setPotentialNext = logic.potential
                  /\ app'.setActiveNext \ stepped.setActiveNext \subseteq app'.setActive
                  /\ stepped.setActiveNext \subseteq app'.setActiveNext ]_vars

\* C27 witness: the application has stepped at least twice and drawn in
\* between, a cell was born in the last step, and cells are alive.
C27_Witness ==
    /\ lastOp = "frameStep" /\ nSteps >= 2 /\ nAdds >= 3
    /\ app.setActiveNext \ app.setActive # {}
    /\ app.setPotentialNext # app.setActiveNext

\* the changed lanes of the dispatch in `k`, in the order of their fetch-adds
FetchAddOrder(k) ==
    [ j \in 1 .. Cardinality(ChangedLanesOf(k)) |->
        CHOOSE g \in ChangedLanesOf(k) : k.base[g] = 9 * (j - 1) ]

\* the same ComputeCellStates call on freshly reset caches, its lanes
\* scheduled as in the dispatch in `k`
OnFreshCaches(k, raw) ==
    CalculateNextGenerationRaw(NewContext, raw.currentActive, raw.potentialCells, EnvAllOk,
                               FetchAddOrder(k), raw.oob)

\* C28: whatever buffers earlier steps left behind, a successful step
\* returns the results and the neighbour list that the same step, with the
\* same lane schedule, returns on freshly reset caches; the table the kernel
\* probes has exactly tableSize slots, all uploaded by this step, and every
\* neighbour slot the host returns was written by a lane of this step.
C28_StepIndependentOfEarlierSteps ==
    (lastOp = "download" /\ kernel.phase = "done" /\ retOk) =>
        /\ lastRaw.results = OnFreshCaches(kernel, lastRaw).results
        /\ lastRaw.neighborOutputs = OnFreshCaches(kernel, lastRaw).neighborOutputs
        /\ DOMAIN kernel.table = 0 .. kernel.params.tableSize - 1
        /\ kernel.params.hashMask < kernel.params.tableSize
        /\ \A k \in 1 .. Len(lastRaw.neighborOutputs) :
              \E w \in kernel.writes : w[1] = k - 1 /\ w[2] = lastRaw.neighborOutputs[k]

\* the same statement for steps whose maxNeighbors covers nine slots per
\* potential cell
StepIndependentWithoutTruncation ==
    (kernel.params.maxNeighbors >= 9 * kernel.params.potentialCount)
    => C28_StepIndependentOfEarlierSteps

\* C29: in every successful GPU step that dispatched the kernel, maxNeighbors
\* is at least 9 x potentialCount taken as a 32-bit value, the counter read
\* back does not exceed maxNeighbors, and the overflow flag is not set.
C29_MaxNeighborsCoversPotential ==
    [][ (lastOp' = "gpuStep" /\ retOk' /\ gpuPotential # {})
        => /\ MaxNeighborsOf(ctx') >= ToUint32(9 * Cardinality(gpuPotential))
           /\ FinalCounter(gpuActive, gpuPotential) <= MaxNeighborsOf(ctx')
           /\ ~timing'.neighborOverflow ]_vars

\* C30: in every state of a session of GPU steps, allocation or pipeline
\* failures and ResetCaches calls, no step has used a nil resource; a pipeline
\* recorded as ready comes with a parameter buffer; and a growable buffer
\* with a recorded capacity has a handle that is non-nil and at least that
\* large.
C30_ReadyStateHasResources ==
    /\ ~crashed
    /\ ctx.pipeline => ctx.paramBuffer
    /\ \A b \in GrowableBuffers :
          ctx[b.capacity] > 0 => (ctx[b.handle] # 0 /\ ctx[b.handle] >= ctx[b.capacity])

====
